---- MODULE Spec2Model ----
(***************************************************************************)
(* autoenergy: the update orchestrator (Server.handleUpdate, one tick per  *)
(* /api/update request) of pkg/server, with the collaborators it calls     *)
(* (storage, ESS adapter, utility price provider, controller) modelled by  *)
(* the outcomes their calls can have.                                      *)
(*                                                                         *)
(* Every outbound call of handleUpdate is one atomic step of the request   *)
(* that makes it; the local code that follows a call up to the next call   *)
(* belongs to the same step.  Several requests may be in flight at once    *)
(* (net/http serves each request on its own goroutine).                    *)
(***************************************************************************)
EXTENDS Integers, Sequences, FiniteSets, TLC

\* ------------------------------------------------------------------------
\* Bounds of the model
\* ------------------------------------------------------------------------

\* number of /api/update requests the model follows
NumTicks == 2

\* largest number of hours one ESS GetEnergyHistory call returns
MaxHistory == 2

Ticks == 1..NumTicks

\* ------------------------------------------------------------------------
\* Values
\* ------------------------------------------------------------------------

\* absent value (a nil pointer, a zero struct, a context value never set)
NoValue == "<none>"

\* time.Time{}, for which IsZero() holds
ZeroTime == 0

\* types.BatteryMode and types.SolarMode
BatteryModes == {"NoChange", "Standby", "ChargeAny", "ChargeSolar", "Load"}
SolarModes == {"NoChange", "NoExport", "Any"}

\* a types.Settings as the tests set it up; prices are in cents per kWh,
\* MinBatterySOC is a percentage
baseSettings ==
  [DryRun |-> FALSE, Pause |-> FALSE,
   AlwaysChargeUnderDollarsPerKWH |-> 5,
   AdditionalFeesDollarsPerKWH |-> 2,
   MinArbitrageDifferenceDollarsPerKWH |-> 1,
   MinBatterySOC |-> 20,
   GridChargeBatteries |-> TRUE, GridExportSolar |-> TRUE,
   IgnoreHourUsageOverMultiple |-> 2]

\* the settings a tick may find stored: handleUpdate itself reads Pause and
\* DryRun
SettingsValues ==
  {[baseSettings EXCEPT !.Pause = p, !.DryRun = d] : p, d \in BOOLEAN}

\* the settings a PUT /api/settings body can decode to: every value of
\* MinBatterySOC around its bounds, and one body for every other bound the
\* handler validates, with that bound violated
SettingsBodies ==
  {[baseSettings EXCEPT !.DryRun = d, !.MinBatterySOC = m] :
     d \in BOOLEAN, m \in {-1, 0, 100, 101}}
  \cup
  {[baseSettings EXCEPT !.AlwaysChargeUnderDollarsPerKWH = -1],
   [baseSettings EXCEPT !.AdditionalFeesDollarsPerKWH = -1],
   [baseSettings EXCEPT !.MinArbitrageDifferenceDollarsPerKWH = -1],
   [baseSettings EXCEPT !.IgnoreHourUsageOverMultiple = 0],
   [baseSettings EXCEPT !.AlwaysChargeUnderDollarsPerKWH = 0,
                        !.AdditionalFeesDollarsPerKWH = 0,
                        !.MinArbitrageDifferenceDollarsPerKWH = 0,
                        !.IgnoreHourUsageOverMultiple = 1]}

\* the e-mail identities a request or a token can carry
SpecificEmail == "scheduler@example.com"
AdminEmail == "admin@example.com"
OtherEmail == "other@example.com"
Emails == {SpecificEmail, AdminEmail, OtherEmail}

\* Server fields that configure authorization of /api/update
Configs ==
  [updateSpecificEmail : {"", SpecificEmail},
   adminEmails : {{}, {AdminEmail}},
   updateSpecificAudience : {"", "my-audience"},
   bypassAuth : BOOLEAN]

\* the Authorization header, as the words strings.Split(header, " ") yields
\* (the empty header is the empty sequence)
AuthHeaders ==
  {<<>>, <<"Basic", "user:pass">>, <<"Bearer", "token">>,
   <<"bearer", "token">>, <<"Bearer">>}

\* what a request brings to the authorization code: the e-mail authMiddleware
\* put in the context (NoValue: none), the Authorization header, and what the
\* token validator answers for the token (error, or a payload whose email
\* claim is a string or not)
Requests ==
  [ctxEmail : {NoValue, ""} \cup Emails,
   authHeader : AuthHeaders,
   tokenValid : BOOLEAN,
   claimEmail : {NoValue} \cup Emails]

VARIABLES
  cfg,            \* the Server's authorization configuration
  faulty,         \* environment: TRUE iff outbound calls may fail
  active,         \* the requests that arrive
  storedSettings, \* storage: the settings document
  storedPrices,   \* storage: confirmed prices upserted (by hour key)
  storedHistory,  \* storage: energy-history hours upserted (by hour key)
  storedActions,  \* storage: the action log
  essCalls,       \* the ESS: the mutating calls it has received, in order
  pc,             \* per request: the step of handleUpdate it is about to run
  trace,          \* per request: the calls made so far and how they returned
  settings,       \* per request: local settings
  status,         \* per request: local status
  newHistory,     \* per request: local newHistory (the hours returned)
  histIdx,        \* per request: position of the range loop over newHistory
  action,         \* per request: local action
  resp,           \* per request: the HTTP response written
  arrived,        \* per request: the request received, until past line 88
  cancelled,      \* per request: TRUE iff r.Context() is cancelled
  lastPut,        \* PUT /api/settings: the last request and its response
  controller,     \* the controller: what NewController() built
  input,          \* the controller: the arguments of a Decide call
  decision,       \* the controller: what Decide returned for input
  earlier,        \* the controller: the Decide calls before, with results
  now,            \* the wall clock, time.Now(), in quarters of an hour
  zone,           \* the offset of the server's local time from UTC
  lastGet,        \* GET /api/history/...: the last request and response
  essOffset,      \* the ESS: where in the hour its hourly records start
  lastSync,       \* the history sync of the tick that just ran
  futurePrices,   \* per request: local futurePrices
  energyHistory,  \* per request: local energyHistory
  decideArgs,     \* per request: the arguments Decide was called with
  lastAuth,       \* authMiddleware: the last request and what became of it
  inserted        \* per request: the argument InsertAction was called with

vars ==
  <<cfg, faulty, active, storedSettings, storedPrices, storedHistory,
    storedActions, essCalls, pc, trace, settings, status, newHistory,
    histIdx, action, resp, arrived, cancelled, lastPut, controller, input,
    decision, earlier, now, zone, lastGet, essOffset, lastSync,
    futurePrices, energyHistory, decideArgs, lastAuth, inserted>>

serverVars == <<cfg, faulty, active>>
requestVars == <<arrived, cancelled>>
controllerVars == <<controller, input, decision, earlier>>
clockVars == <<now, zone>>
historyVars == <<lastGet, essOffset, lastSync, lastAuth>>
apiVars == <<lastPut, controllerVars, clockVars, historyVars>>
storageVars == <<storedSettings, storedPrices, storedHistory, storedActions>>
decideVars == <<futurePrices, energyHistory, decideArgs, inserted>>
localVars == <<settings, status, newHistory, histIdx, action, decideVars>>

\* ------------------------------------------------------------------------
\* Helpers
\* ------------------------------------------------------------------------

\* the outcomes the environment allows an outbound call: TRUE is a nil error
Outcomes == IF faulty THEN BOOLEAN ELSE {TRUE}

\* the outcomes of an outbound call that is given the context of request t:
\* a collaborator honors cancellation, so the call fails once it is cancelled
CallOutcomes(t) == IF cancelled[t] THEN {FALSE} ELSE Outcomes

Call(name, ok) == [call |-> name, ok |-> ok]

\* a comparison of the scheme that minds the case
ToLowerKept(w) == w

\* strings.ToLower on the words a header can start with
ToLower(w) == IF w = "Bearer" THEN "bearer" ELSE w

\* the zero values of the handler's locals
ZeroSettings ==
  [DryRun |-> FALSE, Pause |-> FALSE,
   AlwaysChargeUnderDollarsPerKWH |-> 0,
   AdditionalFeesDollarsPerKWH |-> 0,
   MinArbitrageDifferenceDollarsPerKWH |-> 0,
   MinBatterySOC |-> 0,
   GridChargeBatteries |-> FALSE, GridExportSolar |-> FALSE,
   IgnoreHourUsageOverMultiple |-> 0]
ZeroStatus == [EmergencyMode |-> FALSE]
ZeroAction ==
  [BatteryMode |-> NoValue, SolarMode |-> NoValue, Description |-> <<>>,
   DryRun |-> FALSE, Timestamp |-> ZeroTime]

\* the body of a PUT /api/settings request: whether json.Decode accepts it,
\* and the settings it decodes to
NoBody == [decodes |-> FALSE, settings |-> ZeroSettings]
PutBodies ==
  {NoBody} \cup {[decodes |-> TRUE, settings |-> b] : b \in SettingsBodies}

\* no PUT /api/settings handled yet, no Decide call made yet
NoPut ==
  [code |-> 0, status |-> "", ctxEmail |-> NoValue, body |-> NoBody,
   before |-> ZeroSettings, setSettings |-> <<>>]
NoInput == [given |-> FALSE]
NoDecision ==
  [made |-> FALSE, err |-> FALSE, raw |-> NoValue, BatteryMode |-> NoValue,
   SolarMode |-> NoValue, Description |-> <<>>]

\* nothing written to the http.ResponseWriter yet
NoResponse == [code |-> 0, status |-> "", action |-> ZeroAction]

\* http.Error(w, msg, code)
HttpError(code, msg) == [code |-> code, status |-> msg, action |-> ZeroAction]

\* WriteHeader(200) and the JSON body {"status": st}
HttpStatus(st) == [code |-> 200, status |-> st, action |-> ZeroAction]

\* WriteHeader(200) and the JSON body {"status":"success","action":a,...}
HttpSuccess(a) == [code |-> 200, status |-> "success", action |-> a]

\* ------------------------------------------------------------------------
\* Authorization of /api/update
\* ------------------------------------------------------------------------

\* the e-mail check of both authorization paths
EmailAllowedAny(c, email) == TRUE

EmailAllowed(c, email) ==
  IF c.updateSpecificEmail # "" /\ email = c.updateSpecificEmail
  THEN TRUE
  ELSE email \in c.adminEmails

\* a handler that takes either credential: the bearer token is looked at
\* even when the cookie identity is not allowed
AuthOutcomeEitherPath(c, r) ==
  IF \/ r.ctxEmail # NoValue /\ r.ctxEmail # "" /\ EmailAllowed(c, r.ctxEmail)
     \/ /\ c.updateSpecificAudience # ""
        /\ Len(r.authHeader) = 2 /\ ToLower(r.authHeader[1]) = "bearer"
        /\ r.tokenValid
        /\ r.claimEmail # NoValue /\ EmailAllowed(c, r.claimEmail)
     \/ c.bypassAuth
  THEN NoResponse
  ELSE HttpError(401, "missing authentication")

\* the authorization prologue of handleUpdate: NoResponse when the request
\* may proceed to the tick, else the error response written
AuthOutcome(c, r) ==
  IF r.ctxEmail # NoValue /\ r.ctxEmail # ""
  THEN IF EmailAllowed(c, r.ctxEmail)
       THEN NoResponse
       ELSE HttpError(403, "unauthorized email")
  ELSE IF /\ c.updateSpecificAudience # ""
          /\ (c.updateSpecificEmail # "" \/ c.adminEmails # {})
  THEN IF r.authHeader = <<>>
       THEN HttpError(401, "missing authorization header")
       ELSE IF Len(r.authHeader) # 2 \/ ToLower(r.authHeader[1]) # "bearer"
       THEN HttpError(401, "invalid authorization header")
       ELSE IF ~r.tokenValid
       THEN HttpError(401, "invalid id token")
       ELSE IF r.claimEmail = NoValue
       THEN HttpError(403, "invalid token claims")
       ELSE IF EmailAllowed(c, r.claimEmail)
       THEN NoResponse
       ELSE HttpError(403, "unauthorized email")
  ELSE IF ~c.bypassAuth
  THEN HttpError(401, "missing authentication")
  ELSE NoResponse

\* ------------------------------------------------------------------------
\* PUT /api/settings
\* ------------------------------------------------------------------------

\* a handler that lets anybody update the settings
PutAuthOutcomeOpen(c, email) == NoResponse

\* the authorization prologue of handleUpdateSettings, for the e-mail
\* authMiddleware put in the context
PutAuthOutcome(c, email) ==
  IF c.bypassAuth
  THEN NoResponse
  ELSE IF c.adminEmails = {}
  THEN HttpError(403, "settings updates are disabled")
  ELSE IF email = NoValue \/ email = ""
  THEN HttpError(401, "missing authentication")
  ELSE IF email \notin c.adminEmails
  THEN HttpError(403, "unauthorized email")
  ELSE NoResponse

\* a validation that forgets the upper bound of MinBatterySOC
SettingsInBoundsNoUpper(s) ==
  ~ \/ s.AlwaysChargeUnderDollarsPerKWH < 0
    \/ s.AdditionalFeesDollarsPerKWH < 0
    \/ s.MinArbitrageDifferenceDollarsPerKWH < 0
    \/ s.MinBatterySOC < 0
    \/ s.IgnoreHourUsageOverMultiple < 1

\* "Basic validation": the body passes iff none of the tests is true
SettingsInBounds(s) ==
  ~ \/ s.AlwaysChargeUnderDollarsPerKWH < 0
    \/ s.AdditionalFeesDollarsPerKWH < 0
    \/ s.MinArbitrageDifferenceDollarsPerKWH < 0
    \/ s.MinBatterySOC < 0 \/ s.MinBatterySOC > 100
    \/ s.IgnoreHourUsageOverMultiple < 1

\* handleUpdateSettings, for a request with context e-mail email and body
\* body: authorization, decoding, validation, SetSettings (which succeeds
\* iff ok), response
UpdateSettings(email, body, ok) ==
    LET auth == PutAuthOutcome(cfg, email)
        saves == /\ auth = NoResponse
                 /\ body.decodes
                 /\ SettingsInBounds(body.settings)
        out == IF auth # NoResponse THEN auth
               ELSE IF ~body.decodes
               THEN HttpError(400, "invalid request body")
               ELSE IF ~SettingsInBounds(body.settings)
               THEN HttpError(400, "invalid settings values")
               ELSE IF ~ok
               THEN HttpError(500, "failed to save settings")
               ELSE HttpStatus("")
    IN /\ saves \/ ok
       /\ storedSettings' = IF saves /\ ok THEN body.settings
                            ELSE storedSettings
       /\ lastPut' =
            [code |-> out.code, status |-> out.status, ctxEmail |-> email,
             body |-> body, before |-> storedSettings,
             setSettings |-> IF saves THEN <<ok>> ELSE <<>>]
       /\ UNCHANGED <<serverVars, requestVars, controllerVars, clockVars,
                      historyVars, storedPrices, storedHistory, storedActions, localVars,
                      essCalls, trace, pc, resp>>

\* a PUT /api/settings request of any identity and body
handleUpdateSettings ==
  \E email \in {NoValue, ""} \cup Emails, body \in PutBodies,
     ok \in Outcomes :
    UpdateSettings(email, body, ok)

\* ------------------------------------------------------------------------
\* The pipeline of one tick
\* ------------------------------------------------------------------------

\* a handler that fetches the ESS status before the pause gate
PipelineStatusBeforePause ==
  <<"Authorize", "GetSettings", "ApplySettings", "LastConfirmedPrice",
    "UpsertPrice", "GetLatestEnergyHistoryTime", "EssGetEnergyHistory",
    "UpsertEnergyHistory", "GetStatus", "PauseGate", "EmergencyGate",
    "GetCurrentPrice", "GetFuturePrices", "GetEnergyHistory", "Decide",
    "Execute", "InsertAction">>

\* the steps of handleUpdate in the order of its source text
Pipeline ==
  <<"Authorize", "GetSettings", "ApplySettings", "LastConfirmedPrice",
    "UpsertPrice", "GetLatestEnergyHistoryTime", "EssGetEnergyHistory",
    "UpsertEnergyHistory", "PauseGate", "GetStatus", "EmergencyGate",
    "GetCurrentPrice", "GetFuturePrices", "GetEnergyHistory", "Decide",
    "Execute", "InsertAction">>

\* the step that follows step s when control falls through
After(s) ==
  LET i == CHOOSE k \in 1..Len(Pipeline) : Pipeline[k] = s
  IN IF i = Len(Pipeline) THEN "done" ELSE Pipeline[i + 1]

\* a handler that goes on without a current price
FatalCallsPriceIgnored ==
  {"GetSettings", "ApplySettings", "GetStatus", "Decide"}

\* the calls whose error branch writes a 500 and returns
FatalCalls ==
  {"GetSettings", "ApplySettings", "GetStatus", "GetCurrentPrice", "Decide"}

\* a handler without the pause gate
PauseStopsNever(s) == FALSE

\* the pause gate: TRUE iff the handler answers "paused" and returns
PauseStops(s) == s.Pause

\* a handler without the emergency gate
EmergencyStopsNever(st) == FALSE

\* the emergency gate: TRUE iff the handler answers "emergency mode" and
\* returns
EmergencyStops(st) == st.EmergencyMode

\* a switch that passes the controller's solar mode on to the ESS
ExecuteCallsControllerSolar(a) ==
  IF a.BatteryMode \in {"ChargeAny", "Load", "Standby"}
  THEN <<[bat |-> a.BatteryMode, sol |-> a.SolarMode]>>
  ELSE <<>>

\* the switch of the execute step: the SetModes calls made for a decided
\* action, as the arguments passed
ExecuteCalls(a) ==
  IF a.BatteryMode = "ChargeAny"
  THEN <<[bat |-> "ChargeAny", sol |-> "Any"]>>
  ELSE IF a.BatteryMode = "Load"
  THEN <<[bat |-> "Load", sol |-> "Any"]>>
  ELSE IF a.BatteryMode = "Standby"
  THEN <<[bat |-> "Standby", sol |-> "Any"]>>
  ELSE <<>>

\* a handler that drops the SetModes error
AppendNothing(d) == d

\* fmt.Sprintf(" (FAILED: %v)", err) appended to a Description
AppendFailed(d) == Append(d, " (FAILED: error)")

\* the Description the controller gives its decision
Rationale == <<"rationale">>

\* the price LastConfirmedPrice returns, by its hour key
ConfirmedPrice == "lastConfirmedHour"

Logged(t, name, ok) == trace' = [trace EXCEPT ![t] = Append(@, Call(name, ok))]

\* a handler whose error branches return without writing a response
ContinueSilently(t, name, ok, msg, next) ==
  IF ~ok /\ name \in FatalCalls
  THEN /\ pc' = [pc EXCEPT ![t] = "done"]
       /\ UNCHANGED resp
  ELSE /\ pc' = [pc EXCEPT ![t] = next]
       /\ UNCHANGED resp

\* control after a call returned: the error branch of a fatal call answers
\* 500 with msg and returns, anything else goes on with step next
Continue(t, name, ok, msg, next) ==
  IF ~ok /\ name \in FatalCalls
  THEN /\ pc' = [pc EXCEPT ![t] = "done"]
       /\ resp' = [resp EXCEPT ![t] = HttpError(500, msg)]
  ELSE /\ pc' = [pc EXCEPT ![t] = next]
       /\ UNCHANGED resp

At(t, step) == t \in active /\ pc[t] = step

\* the server hands a request to the handler: r.Context() carries the e-mail
\* authMiddleware found (or none) and r.Header the Authorization header
Arrive(t) ==
  /\ At(t, "Authorize")
  /\ arrived[t] = {}
  /\ \E r \in Requests : arrived' = [arrived EXCEPT ![t] = {r}]
  /\ UNCHANGED <<serverVars, cancelled, apiVars, storageVars, localVars,
                 essCalls, trace, pc, resp>>

\* a handler that authorizes after it has loaded the settings
AuthorizeAfterSettings(t) ==
  /\ At(t, "Authorize")
  /\ \E r \in arrived[t], ok \in CallOutcomes(t) :
       LET out == AuthOutcome(cfg, r)
       IN /\ Logged(t, "GetSettings", ok)
          /\ resp' = [resp EXCEPT ![t] = out]
          /\ pc' = [pc EXCEPT ![t] =
                      IF out = NoResponse THEN After("Authorize") ELSE "done"]
  /\ UNCHANGED <<serverVars, requestVars, apiVars, storageVars, localVars,
                 essCalls>>

\* the authorization prologue, for the request r that arrived
Authorize(t) ==
  /\ At(t, "Authorize")
  /\ \E r \in arrived[t] :
       LET out == AuthOutcome(cfg, r)
       IN /\ resp' = [resp EXCEPT ![t] = out]
          /\ pc' = [pc EXCEPT ![t] =
                      IF out = NoResponse THEN After("Authorize") ELSE "done"]
  /\ UNCHANGED <<serverVars, requestVars, apiVars, storageVars, localVars,
                 essCalls, trace>>

\* 1. s.storage.GetSettings; from here on the handler reads r.Context()
\* only, and the request is dropped from the state
GetSettings(t) ==
  /\ At(t, "GetSettings")
  /\ \E ok \in CallOutcomes(t) :
       /\ Logged(t, "GetSettings", ok)
       /\ settings' = [settings EXCEPT ![t] = IF ok THEN storedSettings ELSE @]
       /\ Continue(t, "GetSettings", ok, "failed to get settings",
                   After("GetSettings"))
  /\ arrived' = [arrived EXCEPT ![t] = {}]
  /\ UNCHANGED <<serverVars, cancelled, apiVars,
                 storageVars, essCalls, status, newHistory,
                 histIdx, action, decideVars>>

\* s.essSystem.ApplySettings
ApplySettings(t) ==
  /\ At(t, "ApplySettings")
  /\ \E ok \in CallOutcomes(t) :
       /\ Logged(t, "ApplySettings", ok)
       /\ essCalls' = Append(essCalls,
            [tick |-> t, call |-> "ApplySettings", ok |-> ok,
             args |-> settings[t]])
       /\ Continue(t, "ApplySettings", ok, "failed to apply settings",
                   After("ApplySettings"))
  /\ UNCHANGED <<serverVars, requestVars, apiVars,
                 storageVars, localVars>>

\* 2. s.utilityProvider.LastConfirmedPrice; no upsert when it fails
LastConfirmedPrice(t) ==
  /\ At(t, "LastConfirmedPrice")
  /\ \E ok \in CallOutcomes(t) :
       /\ Logged(t, "LastConfirmedPrice", ok)
       /\ Continue(t, "LastConfirmedPrice", ok, "",
                   IF ok THEN After("LastConfirmedPrice")
                   ELSE After("UpsertPrice"))
  /\ UNCHANGED <<serverVars, requestVars, apiVars,
                 storageVars, localVars, essCalls>>

\* s.storage.UpsertPrice
UpsertPrice(t) ==
  /\ At(t, "UpsertPrice")
  /\ \E ok \in CallOutcomes(t) :
       /\ Logged(t, "UpsertPrice", ok)
       /\ storedPrices' = IF ok THEN storedPrices \cup {ConfirmedPrice}
                          ELSE storedPrices
       /\ Continue(t, "UpsertPrice", ok, "", After("UpsertPrice"))
  /\ UNCHANGED <<serverVars, requestVars, apiVars,
                 storedSettings, storedHistory, storedActions,
                 localVars, essCalls>>

\* 3. s.storage.GetLatestEnergyHistoryTime; a failure is only logged
GetLatestEnergyHistoryTime(t) ==
  /\ At(t, "GetLatestEnergyHistoryTime")
  /\ \E ok \in CallOutcomes(t) :
       /\ Logged(t, "GetLatestEnergyHistoryTime", ok)
       /\ Continue(t, "GetLatestEnergyHistoryTime", ok, "",
                   After("GetLatestEnergyHistoryTime"))
  /\ UNCHANGED <<serverVars, requestVars, apiVars,
                 storageVars, localVars, essCalls>>

\* s.essSystem.GetEnergyHistory: n hours come back, keyed 1..n; the range
\* loop is entered when the call succeeded and returned something
EssGetEnergyHistory(t) ==
  /\ At(t, "EssGetEnergyHistory")
  /\ \E ok \in CallOutcomes(t), n \in 0..MaxHistory :
       /\ ok \/ n = 0
       /\ Logged(t, "EssGetEnergyHistory", ok)
       /\ newHistory' = [newHistory EXCEPT ![t] = [i \in 1..n |-> i]]
       /\ histIdx' = [histIdx EXCEPT ![t] = 1]
       /\ Continue(t, "EssGetEnergyHistory", ok, "",
                   IF ok /\ n > 0 THEN After("EssGetEnergyHistory")
                   ELSE After("UpsertEnergyHistory"))
  /\ UNCHANGED <<serverVars, requestVars, apiVars,
                 storageVars, essCalls, settings, status, action,
                 decideVars>>

\* a range loop that stops at the first failed upsert
LoopBreakOnError(i, ok, n) == IF ok THEN i + 1 ELSE n + 1

\* the position of the range loop over n elements after the upsert of
\* element i returned: the error is logged and the loop goes on
LoopNext(i, ok, n) == i + 1

\* one iteration of the range loop: s.storage.UpsertEnergyHistory(h)
UpsertEnergyHistory(t) ==
  /\ At(t, "UpsertEnergyHistory")
  /\ histIdx[t] <= Len(newHistory[t])
  /\ \E ok \in CallOutcomes(t) :
       LET h == newHistory[t][histIdx[t]]
           nxt == LoopNext(histIdx[t], ok, Len(newHistory[t]))
       IN /\ Logged(t, "UpsertEnergyHistory", ok)
          /\ storedHistory' = IF ok THEN storedHistory \cup {h}
                              ELSE storedHistory
          /\ histIdx' = [histIdx EXCEPT ![t] = nxt]
          /\ Continue(t, "UpsertEnergyHistory", ok, "",
                      IF nxt <= Len(newHistory[t]) THEN "UpsertEnergyHistory"
                      ELSE After("UpsertEnergyHistory"))
  /\ UNCHANGED <<serverVars, requestVars, apiVars,
                 storedSettings, storedPrices, storedActions,
                 essCalls, settings, status, newHistory, action,
                 decideVars>>

\* if settings.Pause: 200 {"status":"paused"} and return
PauseGate(t) ==
  /\ At(t, "PauseGate")
  /\ Logged(t, "PauseGate", TRUE)
  /\ IF PauseStops(settings[t])
     THEN /\ resp' = [resp EXCEPT ![t] = HttpStatus("paused")]
          /\ pc' = [pc EXCEPT ![t] = "done"]
     ELSE /\ pc' = [pc EXCEPT ![t] = After("PauseGate")]
          /\ UNCHANGED resp
  /\ UNCHANGED <<serverVars, requestVars, apiVars,
                 storageVars, localVars, essCalls>>

\* 4. s.essSystem.GetStatus
GetStatus(t) ==
  /\ At(t, "GetStatus")
  /\ \E ok \in CallOutcomes(t), em \in BOOLEAN :
       /\ ok \/ ~em
       /\ Logged(t, "GetStatus", ok)
       /\ status' = [status EXCEPT ![t] = [EmergencyMode |-> em]]
       /\ Continue(t, "GetStatus", ok, "failed to get ess status",
                   After("GetStatus"))
  /\ UNCHANGED <<serverVars, requestVars, apiVars,
                 storageVars, essCalls, settings, newHistory,
                 histIdx, action, decideVars>>

\* if status.EmergencyMode: 200 {"status":"emergency mode"} and return
EmergencyGate(t) ==
  /\ At(t, "EmergencyGate")
  /\ Logged(t, "EmergencyGate", TRUE)
  /\ IF EmergencyStops(status[t])
     THEN /\ resp' = [resp EXCEPT ![t] = HttpStatus("emergency mode")]
          /\ pc' = [pc EXCEPT ![t] = "done"]
     ELSE /\ pc' = [pc EXCEPT ![t] = After("EmergencyGate")]
          /\ UNCHANGED resp
  /\ UNCHANGED <<serverVars, requestVars, apiVars,
                 storageVars, localVars, essCalls>>

\* 5. s.utilityProvider.GetCurrentPrice
GetCurrentPrice(t) ==
  /\ At(t, "GetCurrentPrice")
  /\ \E ok \in CallOutcomes(t) :
       /\ Logged(t, "GetCurrentPrice", ok)
       /\ Continue(t, "GetCurrentPrice", ok, "failed to get price",
                   After("GetCurrentPrice"))
  /\ UNCHANGED <<serverVars, requestVars, apiVars,
                 storageVars, localVars, essCalls>>

\* the prices of the coming hours and the stored hours of the last 72
\* hours, as the provider and the storage return them
ComingPrices == <<"nextHour">>
StoredHours == <<"lastHour">>

\* what a call can return together with a non-nil error: nothing, or the
\* part of the value v it had got
ReturnedWithError(v) == {<<>>, v}

\* what a call can return: v with a nil error, else any of
\* ReturnedWithError(v)
Returns(ok, v) == IF ok THEN {v} ELSE ReturnedWithError(v)

\* s.utilityProvider.GetFuturePrices; a failure is only logged, and
\* futurePrices is what the call returned
GetFuturePrices(t) ==
  /\ At(t, "GetFuturePrices")
  /\ \E ok \in CallOutcomes(t) :
       /\ Logged(t, "GetFuturePrices", ok)
       /\ \E v \in Returns(ok, ComingPrices) :
            futurePrices' = [futurePrices EXCEPT ![t] = v]
       /\ Continue(t, "GetFuturePrices", ok, "", After("GetFuturePrices"))
  /\ UNCHANGED <<serverVars, requestVars, apiVars, storageVars, essCalls,
                 settings, status, newHistory, histIdx, action,
                 energyHistory, decideArgs, inserted>>

\* 6. s.storage.GetEnergyHistory; a failure is only logged, and
\* energyHistory is what the call returned
GetEnergyHistory(t) ==
  /\ At(t, "GetEnergyHistory")
  /\ \E ok \in CallOutcomes(t) :
       /\ Logged(t, "GetEnergyHistory", ok)
       /\ \E v \in Returns(ok, StoredHours) :
            energyHistory' = [energyHistory EXCEPT ![t] = v]
       /\ Continue(t, "GetEnergyHistory", ok, "", After("GetEnergyHistory"))
  /\ UNCHANGED <<serverVars, requestVars, apiVars, storageVars, essCalls,
                 settings, status, newHistory, histIdx, action,
                 futurePrices, decideArgs, inserted>>

\* no Decide call made by the tick
NoDecideArgs ==
  [called |-> FALSE, status |-> ZeroStatus, futurePrices |-> <<>>,
   history |-> <<>>, settings |-> ZeroSettings]

\* a handler that loads the settings again for the controller
SettingsArgumentReloaded(t) == storedSettings

\* the settings argument of s.controller.Decide
SettingsArgument(t) == settings[t]

\* a handler that keeps the Timestamp of the decision as it is
ActionTimestampKept(ts) == ts

\* the Timestamp of the action: that of the decision, or time.Now() when
\* the controller left it zero
ActionTimestamp(ts) == IF ts = ZeroTime THEN now ELSE ts

\* s.controller.Decide: the controller answers an error, or an action with
\* any battery mode and any solar mode, whose Timestamp it left zero or
\* set to the time of the call
Decide(t) ==
  /\ At(t, "Decide")
  /\ \E ok \in Outcomes, bat \in BatteryModes, sol \in SolarModes,
        ts \in {ZeroTime, now} :
       /\ ok \/ (bat = "NoChange" /\ sol = "NoChange" /\ ts = ZeroTime)
       /\ Logged(t, "Decide", ok)
       /\ action' = [action EXCEPT ![t] =
                       IF ok
                       THEN [BatteryMode |-> bat, SolarMode |-> sol,
                             Description |-> Rationale, DryRun |-> FALSE,
                             Timestamp |-> ActionTimestamp(ts)]
                       ELSE @]
       /\ decideArgs' = [decideArgs EXCEPT ![t] =
                           [called |-> TRUE, status |-> status[t],
                            futurePrices |-> futurePrices[t],
                            history |-> energyHistory[t],
                            settings |-> SettingsArgument(t)]]
       /\ Continue(t, "Decide", ok, "controller error", After("Decide"))
  /\ UNCHANGED <<serverVars, requestVars, apiVars,
                 storageVars, essCalls, settings, status,
                 newHistory, histIdx, futurePrices, energyHistory,
                 inserted>>

\* a handler that leaves the flag of the action as the controller set it
DryRunFlagKept(a, s) == a.DryRun

\* the flag the logged action gets from the settings of the tick
DryRunFlag(a, s) == IF s.DryRun THEN TRUE ELSE a.DryRun

\* 6. Execute Action: the switch over action.BatteryMode with its SetModes
\* call, the error appended to the Description, and the DryRun flag
Execute(t) ==
  /\ At(t, "Execute")
  /\ LET calls == ExecuteCalls(action[t])
     IN \E ok \in CallOutcomes(t) :
          /\ ok \/ calls # <<>>
          /\ trace' = [trace EXCEPT ![t] =
                         @ \o [i \in 1..Len(calls) |-> Call("SetModes", ok)]]
          /\ essCalls' = essCalls \o
                [i \in 1..Len(calls) |->
                   [tick |-> t, call |-> "SetModes", ok |-> ok,
                    args |-> calls[i]]]
          /\ action' = [action EXCEPT ![t] =
                [@ EXCEPT !.Description = IF ok THEN @ ELSE AppendFailed(@),
                          !.DryRun = DryRunFlag(action[t], settings[t])]]
          /\ Continue(t, "SetModes", ok, "", After("Execute"))
  /\ UNCHANGED <<serverVars, requestVars, apiVars,
                 storageVars, settings, status, newHistory,
                 histIdx, decideVars>>

\* no InsertAction call made by the tick
NoInsert == [called |-> FALSE, action |-> ZeroAction]

\* a handler that logs the action under a context of its own
InsertActionDetached(t) ==
  /\ At(t, "InsertAction")
  /\ \E ok \in Outcomes :
       /\ Logged(t, "InsertAction", ok)
       /\ storedActions' = IF ok THEN Append(storedActions, action[t])
                           ELSE storedActions
       /\ inserted' = [inserted EXCEPT ![t] =
                          [called |-> TRUE, action |-> action[t]]]
       /\ resp' = [resp EXCEPT ![t] = HttpSuccess(action[t])]
       /\ pc' = [pc EXCEPT ![t] = After("InsertAction")]
  /\ UNCHANGED <<serverVars, requestVars, apiVars,
                 storedSettings, storedPrices, storedHistory,
                 settings, status, newHistory, histIdx, action,
                 futurePrices, energyHistory, decideArgs, essCalls>>

\* 7. s.storage.InsertAction, then the 200 "success" response
InsertAction(t) ==
  /\ At(t, "InsertAction")
  /\ \E ok \in CallOutcomes(t) :
       /\ Logged(t, "InsertAction", ok)
       /\ storedActions' = IF ok THEN Append(storedActions, action[t])
                           ELSE storedActions
       /\ inserted' = [inserted EXCEPT ![t] =
                          [called |-> TRUE, action |-> action[t]]]
       /\ resp' = [resp EXCEPT ![t] = HttpSuccess(action[t])]
       /\ pc' = [pc EXCEPT ![t] = After("InsertAction")]
  /\ UNCHANGED <<serverVars, requestVars, apiVars,
                 storedSettings, storedPrices, storedHistory,
                 settings, status, newHistory, histIdx, action,
                 futurePrices, energyHistory, decideArgs, essCalls>>

\* the steps of the handler, from the authorization to the response
Tick(t) ==
  \/ Authorize(t)
  \/ GetSettings(t)
  \/ ApplySettings(t)
  \/ LastConfirmedPrice(t)
  \/ UpsertPrice(t)
  \/ GetLatestEnergyHistoryTime(t)
  \/ EssGetEnergyHistory(t)
  \/ UpsertEnergyHistory(t)
  \/ PauseGate(t)
  \/ GetStatus(t)
  \/ EmergencyGate(t)
  \/ GetCurrentPrice(t)
  \/ GetFuturePrices(t)
  \/ GetEnergyHistory(t)
  \/ Decide(t)
  \/ Execute(t)
  \/ InsertAction(t)

handleUpdate(t) == Arrive(t) \/ Tick(t)

\* the context of a request in flight is cancelled (the client went away,
\* the deadline of the request passed)
Cancel(t) ==
  /\ t \in active
  /\ pc[t] # "done"
  /\ ~cancelled[t]
  /\ cancelled' = [cancelled EXCEPT ![t] = TRUE]
  /\ UNCHANGED <<serverVars, arrived, apiVars, storageVars, localVars,
                 essCalls, trace, pc, resp>>

Next == \E t \in Ticks : handleUpdate(t)

\* ------------------------------------------------------------------------
\* The decision controller: Decide(status, currentPrice, futurePrices,
\* history, settings), after section 4.1 of the specification and the
\* controller tests. Prices are in cents per kWh, power in kW, energy in
\* hundredths of a kWh, times in whole hours.
\* ------------------------------------------------------------------------

MaxFuture == 2
MaxStats == 2

\* the controllers NewController() may build: section 4.1.3 lets a
\* controller answer NoChange for a solar mode that equals the observed one,
\* and no test tells whether it does so for NoExport
Controllers == [matchNoExport : BOOLEAN]

\* a controller that emits every NoExport it selects
StrictController == [matchNoExport |-> FALSE]

\* types.SystemStatus, around baseStatus of the tests
Statuses ==
  [BatterySOC : {30, 50}, BatteryCapacityKWH : {0, 10},
   BatteryKW : {-3, -1, 0, 1}, SolarKW : {0, 3}, HomeKW : {1},
   GridKW : {0, 3}, CanExportSolar : BOOLEAN]

\* types.Price of the current hour; TSStart is its hour of the day
CurrentPrices == [TSStart : {12}, DollarsPerKWH : {-1, 0, 1, 10, 50}]

\* the future prices, in time order; TSStart counts the hours from now
FuturePrices ==
  LET P == [TSStart : {1, 5}, DollarsPerKWH : {4, 50}]
  IN {f \in UNION {[1..n -> P] : n \in 0..MaxFuture} :
        \A i, j \in DOMAIN f : i < j => f[i].TSStart < f[j].TSStart}

\* the hours of types.EnergyStats; hoursAgo counts back from now
Histories ==
  LET H == {[hoursAgo |-> 30, HomeKWH |-> 100, SolarKWH |-> 0],
            [hoursAgo |-> 1, HomeKWH |-> 0, SolarKWH |-> 0]}
  IN {h \in UNION {[1..n -> H] : n \in 0..MaxStats} :
        \A i, j \in DOMAIN h : i < j => h[i].hoursAgo > h[j].hoursAgo}

\* the settings Decide reads
DecideSettings ==
  {[baseSettings EXCEPT !.GridChargeBatteries = g, !.GridExportSolar = e] :
     g \in BOOLEAN, e \in BOOLEAN}

DecideInputs ==
  [given : {TRUE}, status : Statuses, currentPrice : CurrentPrices,
   futurePrices : FuturePrices, history : Histories,
   settings : DecideSettings]

Max(a, b) == IF a >= b THEN a ELSE b
Min(a, b) == IF a <= b THEN a ELSE b

\* 4.1.1 (1) effective current price
EffectiveCurrent(in) ==
  in.currentPrice.DollarsPerKWH + in.settings.AdditionalFeesDollarsPerKWH

\* 4.1.1 (2, 3) the future prices within the next 24 hours
Window(in) ==
  {i \in DOMAIN in.futurePrices : in.futurePrices[i].TSStart <= 24}

\* the first hour of the window with the lowest, resp. highest, price
Cheapest(in) ==
  CHOOSE i \in Window(in) :
    \A j \in Window(in) :
      \/ in.futurePrices[i].DollarsPerKWH < in.futurePrices[j].DollarsPerKWH
      \/ /\ in.futurePrices[i].DollarsPerKWH = in.futurePrices[j].DollarsPerKWH
         /\ i <= j
MostExpensive(in) ==
  CHOOSE i \in Window(in) :
    \A j \in Window(in) :
      \/ in.futurePrices[i].DollarsPerKWH > in.futurePrices[j].DollarsPerKWH
      \/ /\ in.futurePrices[i].DollarsPerKWH = in.futurePrices[j].DollarsPerKWH
         /\ i <= j

RECURSIVE SumOf(_, _)
SumOf(f, S) ==
  IF S = {} THEN 0
  ELSE LET x == CHOOSE y \in S : TRUE IN f[x] + SumOf(f, S \ {x})

\* 4.1.1 (4) projected hourly load: the mean of the non-zero HomeKWH of the
\* last 72 hours, each clipped to median x IgnoreHourUsageOverMultiple
AvgLoadKWH(in) ==
  LET h == in.history
      I == {i \in DOMAIN h : h[i].hoursAgo <= 72 /\ h[i].HomeKWH # 0}
      below(i) == {j \in I : h[j].HomeKWH <= h[i].HomeKWH}
      above(i) == {j \in I : h[j].HomeKWH >= h[i].HomeKWH}
      mid == {i \in I : /\ 2 * Cardinality(below(i)) >= Cardinality(I)
                        /\ 2 * Cardinality(above(i)) >= Cardinality(I)}
      lo == CHOOSE i \in mid : \A j \in mid : h[i].HomeKWH <= h[j].HomeKWH
      hi == CHOOSE i \in mid : \A j \in mid : h[i].HomeKWH >= h[j].HomeKWH
      cap == ((h[lo].HomeKWH + h[hi].HomeKWH)
                * in.settings.IgnoreHourUsageOverMultiple) \div 2
      clipped == [i \in I |-> Min(h[i].HomeKWH, cap)]
  IN IF I = {} THEN 0 ELSE SumOf(clipped, I) \div Cardinality(I)

\* 4.1.1 (5) projected hourly solar: the mean SolarKWH of the hours 24-48
\* ago, scaled by the trend ratio today/yesterday clipped to [0.25, 4.0]
ExpectedSolar(in) ==
  LET h == in.history
      T == {i \in DOMAIN h : h[i].hoursAgo <= 24}
      Y == {i \in DOMAIN h : h[i].hoursAgo > 24 /\ h[i].hoursAgo <= 48}
      solar == [i \in DOMAIN h |-> h[i].SolarKWH]
      today == IF T = {} THEN 0 ELSE SumOf(solar, T) \div Cardinality(T)
      yesterday == IF Y = {} THEN 0 ELSE SumOf(solar, Y) \div Cardinality(Y)
      trend == Max(25, Min(400, (100 * today) \div Max(yesterday, 1)))
  IN (yesterday * trend) \div 100

\* 4.1.1 (6) usable battery energy
UsableKWH(in) ==
  Max(0, (in.status.BatterySOC - in.settings.MinBatterySOC)
           * in.status.BatteryCapacityKWH)

\* 4.1.1 (7, 8) the hours simulated: until the cheapest future price, at
\* most 12
ProjectionHours(in) ==
  IF Window(in) = {} THEN 12
  ELSE Min(12, in.futurePrices[Cheapest(in)].TSStart)

\* the energy the battery has to give in the hours simulated: load less the
\* expected solar, which counts in the daylight hours 06:00-19:00 only
ProjectedNeedKWH(in) ==
  LET daylight(k) == LET hr == (in.currentPrice.TSStart + k) % 24
                     IN hr >= 6 /\ hr < 19
      drain == [k \in 1..ProjectionHours(in) |->
                  Max(0, AvgLoadKWH(in)
                           - (IF daylight(k) THEN ExpectedSolar(in) ELSE 0))]
  IN SumOf(drain, 1..ProjectionHours(in))

\* 4.1.1 (8) projected deficit
Deficit(in) == UsableKWH(in) - ProjectedNeedKWH(in) < 0

\* a decision of the rules: the desired battery mode and its Description,
\* as the phrases it is made of
Desired(mode, phrases) == [BatteryMode |-> mode, Description |-> phrases]

\* a guard that looks at the always-charge price before the capacity
ZeroCapacityUnguarded(in) == FALSE

\* 4.1.2 rule 1: the zero capacity guard
ZeroCapacity(in) == in.status.BatteryCapacityKWH = 0

\* a rule 2 that charges under the always-charge price whatever
\* GridChargeBatteries says
AlwaysChargeAnyway(in) ==
  \/ in.currentPrice.DollarsPerKWH <= 0
  \/ EffectiveCurrent(in) < in.settings.AlwaysChargeUnderDollarsPerKWH

\* a rule 2 that needs GridChargeBatteries for a non-positive price too
AlwaysChargeGridOnly(in) ==
  /\ in.settings.GridChargeBatteries
  /\ \/ in.currentPrice.DollarsPerKWH <= 0
     \/ EffectiveCurrent(in) < in.settings.AlwaysChargeUnderDollarsPerKWH

\* 4.1.2 rule 2: negative or always-charge price
AlwaysCharge(in) ==
  \/ in.currentPrice.DollarsPerKWH <= 0
  \/ /\ EffectiveCurrent(in) < in.settings.AlwaysChargeUnderDollarsPerKWH
     /\ in.settings.GridChargeBatteries

\* 4.1.2 rule 3: arbitrage charge
Arbitrage(in) ==
  /\ in.settings.GridChargeBatteries
  /\ Window(in) # {}
  /\ LET f == in.futurePrices
         x == MostExpensive(in)
     IN /\ f[x].DollarsPerKWH - EffectiveCurrent(in)
             >= in.settings.MinArbitrageDifferenceDollarsPerKWH
        /\ \A j \in Window(in) :
             f[j].DollarsPerKWH < EffectiveCurrent(in)
               => f[x].TSStart < f[j].TSStart
  /\ UsableKWH(in)
       < in.status.BatteryCapacityKWH * (100 - in.settings.MinBatterySOC)

\* the rules in the order of section 4.1.2, the arbitrage rule 3 before the
\* deficit rule 4
DesiredModeArbitrageFirst(in) ==
  LET f == in.futurePrices
      eff == EffectiveCurrent(in)
  IN IF AlwaysCharge(in)
     THEN Desired("ChargeAny",
                  IF in.currentPrice.DollarsPerKWH <= 0
                  THEN <<"Negative Price">> ELSE <<"Always Charge">>)
     ELSE IF Arbitrage(in)
     THEN Desired("ChargeAny", <<"Arbitrage: charge now for spike at">>)
     ELSE IF Deficit(in)
             /\ \A j \in Window(in) : eff <= f[j].DollarsPerKWH
     THEN IF in.settings.GridChargeBatteries
          THEN Desired("ChargeAny", <<"Projected Deficit">>)
          ELSE Desired("Standby", <<"Projected Deficit", "Deficit predicted">>)
     ELSE IF Deficit(in)
             /\ \A j \in DOMAIN f : eff >= f[j].DollarsPerKWH
     THEN Desired("Load",
                  <<"Deficit predicted", "but Current Price is Peak">>)
     ELSE IF Deficit(in) /\ \E j \in DOMAIN f : f[j].DollarsPerKWH < eff
     THEN Desired("Standby",
                  <<"Deficit predicted", "; waiting for cheaper hour">>)
     ELSE IF UsableKWH(in) >= ProjectedNeedKWH(in)
     THEN Desired("Load", <<"Sufficient Battery">>)
     ELSE Desired("Standby", <<"Default">>)

\* 4.1.2 rules 2-8: the first rule that matches decides. The rules are
\* looked at in the order of the section but for rule 4, which the test
\* "Deficit detected -> Charge Now" has decide where the arbitrage rule 3
\* matches as well
DesiredMode(in) ==
  LET f == in.futurePrices
      eff == EffectiveCurrent(in)
  IN IF AlwaysCharge(in)
     THEN Desired("ChargeAny",
                  IF in.currentPrice.DollarsPerKWH <= 0
                  THEN <<"Negative Price">> ELSE <<"Always Charge">>)
     ELSE IF Deficit(in)
             /\ \A j \in Window(in) : eff <= f[j].DollarsPerKWH
     THEN IF in.settings.GridChargeBatteries
          THEN Desired("ChargeAny", <<"Projected Deficit">>)
          ELSE Desired("Standby", <<"Projected Deficit", "Deficit predicted">>)
     ELSE IF Arbitrage(in)
     THEN Desired("ChargeAny", <<"Arbitrage: charge now for spike at">>)
     ELSE IF Deficit(in)
             /\ \A j \in DOMAIN f : eff >= f[j].DollarsPerKWH
     THEN Desired("Load",
                  <<"Deficit predicted", "but Current Price is Peak">>)
     ELSE IF Deficit(in) /\ \E j \in DOMAIN f : f[j].DollarsPerKWH < eff
     THEN Desired("Standby",
                  <<"Deficit predicted", "; waiting for cheaper hour">>)
     ELSE IF UsableKWH(in) >= ProjectedNeedKWH(in)
     THEN Desired("Load", <<"Sufficient Battery">>)
     ELSE Desired("Standby", <<"Default">>)

\* 4.1.4: the battery is charging faster than the solar surplus while the
\* grid is importing
GridCharging(st) ==
  /\ st.BatteryKW < 0
  /\ 0 - st.BatteryKW > Max(0, st.SolarKW - st.HomeKW)
  /\ st.GridKW > 0

\* a finalization that emits every desired mode as it is
FinalizeAsDesired(st, d) == d

\* a finalization without the grid-charging item: a battery that charges
\* from the grid is left to it
FinalizeLettingGridCharge(st, d) ==
  IF st.BatteryKW < 0 /\ d = "ChargeAny" THEN "NoChange"
  ELSE IF st.BatteryKW > 0 /\ d = "Load" THEN "NoChange"
  ELSE IF st.BatteryKW >= 0 /\ d = "Standby" THEN "NoChange"
  ELSE d

\* 4.1.4 anti-thrash finalization of the desired battery mode d; the tests
\* have a Standby answered NoChange for an idle battery too
Finalize(st, d) ==
  IF st.BatteryKW < 0 /\ d = "ChargeAny" THEN "NoChange"
  ELSE IF st.BatteryKW > 0 /\ d = "Load" THEN "NoChange"
  ELSE IF st.BatteryKW >= 0 /\ d = "Standby" THEN "NoChange"
  ELSE IF GridCharging(st) /\ d \in {"Load", "Standby"} THEN "Load"
  ELSE d

\* a selection that does not look at the current price
SelectedIgnoringPrice(in) ==
  IF ~in.settings.GridExportSolar \/ ~in.status.CanExportSolar
  THEN "NoExport"
  ELSE "Any"

\* 4.1.3, first two items: the solar mode selected
SelectedSolarMode(in) ==
  IF \/ in.currentPrice.DollarsPerKWH <= 0
     \/ ~in.settings.GridExportSolar
     \/ ~in.status.CanExportSolar
  THEN "NoExport"
  ELSE "Any"

\* the equivalent of a solar mode last observed on the device: it exports
\* or it does not
ObservedSolarMode(st) == IF st.CanExportSolar THEN "Any" ELSE "NoExport"

\* 4.1.3 solar mode: the mode selected, which may be answered NoChange when
\* it equals the one observed; the tests have an observed Any answered
\* NoChange, an observed NoExport is answered NoChange by the controllers
\* that match it
DecideSolarMode(in) ==
  LET sel == SelectedSolarMode(in)
  IN IF /\ sel = ObservedSolarMode(in.status)
        /\ (sel = "Any" \/ controller.matchNoExport)
     THEN "NoChange"
     ELSE sel

\* a controller that compares the desired battery mode with the one it
\* returned last, in place of the battery activity observed
ControllerDecideRemembering(in) ==
  LET d == IF ZeroCapacity(in) THEN Desired("Standby", <<"Capacity 0">>)
           ELSE DesiredMode(in)
      last == IF earlier = <<>> THEN NoValue
              ELSE earlier[Len(earlier)].decision.raw
  IN [made |-> TRUE, err |-> FALSE, raw |-> d.BatteryMode,
      BatteryMode |-> IF d.BatteryMode = last THEN "NoChange"
                      ELSE d.BatteryMode,
      SolarMode |-> DecideSolarMode(in), Description |-> d.Description]

\* Decide: the zero capacity guard answers at once; any other decision goes
\* through the finalization; the error is nil
ControllerDecide(in) ==
  IF ZeroCapacity(in)
  THEN [made |-> TRUE, err |-> FALSE, raw |-> "Standby",
        BatteryMode |-> "Standby", SolarMode |-> DecideSolarMode(in),
        Description |-> <<"Capacity 0">>]
  ELSE LET d == DesiredMode(in)
       IN [made |-> TRUE, err |-> FALSE, raw |-> d.BatteryMode,
           BatteryMode |-> Finalize(in.status, d.BatteryMode),
           SolarMode |-> DecideSolarMode(in),
           Description |-> d.Description]

\* a call of Decide with the arguments of input
DecideCall ==
  /\ input.given
  /\ ~decision.made
  /\ decision' = ControllerDecide(input)
  /\ UNCHANGED <<serverVars, requestVars, lastPut, controller, input,
                 earlier, clockVars, historyVars, storageVars, localVars,
                 essCalls, trace, pc, resp>>

\* the most Decide calls of one controller that are followed
MaxCalls == 3

\* the arguments of the test "Negative Price -> Charge/Hold, No Export"
NegativePriceInput ==
  [given |-> TRUE,
   status |-> [BatterySOC |-> 50, BatteryCapacityKWH |-> 10, BatteryKW |-> 0,
               SolarKW |-> 0, HomeKW |-> 1, GridKW |-> 0,
               CanExportSolar |-> TRUE],
   currentPrice |-> [TSStart |-> 12, DollarsPerKWH |-> -1],
   futurePrices |-> <<>>,
   history |-> <<[hoursAgo |-> 30, HomeKWH |-> 100, SolarKWH |-> 0]>>,
   settings |-> baseSettings]

\* the arguments of the first of several calls: those of DecideInputs for a
\* battery at 30 % without solar production or grid import
FirstInputs ==
  {in \in DecideInputs : /\ in.status.BatterySOC = 30
                         /\ in.status.SolarKW = 0
                         /\ in.status.GridKW = 0}

\* a further call of Decide on the same controller, at a later instant, with
\* the arguments in: the call before joins the earlier ones
DecideAgain(in) ==
  /\ decision.made
  /\ Len(earlier) + 1 < MaxCalls
  /\ earlier' = Append(earlier, [input |-> input, decision |-> decision])
  /\ input' = in
  /\ decision' = NoDecision
  /\ now' = now + 1
  /\ UNCHANGED <<serverVars, requestVars, lastPut, controller, zone,
                 historyVars, storageVars, localVars, essCalls, trace, pc,
                 resp>>

\* ------------------------------------------------------------------------
\* Time. Instants count the quarters of an hour since the zero time.Time.
\* ------------------------------------------------------------------------

Hour == 4
Day == 24 * Hour

\* the first instant of the wall clock: the start of an hour and of a UTC day
Epoch == 100 * Day

\* t.Truncate(d): t rounded down to a multiple of d since the zero time
Truncate(t, d) == t - (t % d)

\* ------------------------------------------------------------------------
\* The history endpoints: GET /api/history/prices, /actions and /savings
\* ------------------------------------------------------------------------

Endpoints == {"prices", "actions", "savings"}

\* the zones of the server's local time: UTC and America/Chicago
Zones == {0, 0 - 6 * Hour}

\* a query parameter: absent (or empty), a text that is no RFC3339 time, or
\* an RFC3339 time, which is a wall-clock reading and its offset from UTC
NoParam == [kind |-> "absent", wall |-> 0, offset |-> 0]
BadParam == [kind |-> "text", wall |-> 0, offset |-> 0]
Stamps ==
  [kind : {"stamp"},
   wall : {Epoch + d * Hour : d \in {-31, -30, -25, -24, -7, -1, 0, 1}}
            \cup {Epoch - 24 * Hour - 1, Epoch - 1},
   offset : Zones]
Params == {NoParam, BadParam} \cup Stamps
Queries == [start : Params, end : Params]

\* time.Parse(time.RFC3339, str): the instant is the wall-clock reading
\* less the offset
ParseRFC3339(str) ==
  IF str.kind = "stamp"
  THEN [err |-> FALSE, t |-> str.wall - str.offset]
  ELSE [err |-> TRUE, t |-> ZeroTime]

TimeRange(err, start, end) == [err |-> err, start |-> start, end |-> end]

\* a parseTimeRange without the limit of 24 hours
parseTimeRangeUnlimited(q) ==
  LET start == ParseRFC3339(q.start)
      end == ParseRFC3339(q.end)
  IN IF q.start = NoParam \/ q.end = NoParam
     THEN TimeRange("", now - Day, now)
     ELSE IF start.err
     THEN TimeRange("invalid start time", ZeroTime, ZeroTime)
     ELSE IF end.err
     THEN TimeRange("invalid end time", ZeroTime, ZeroTime)
     ELSE IF end.t < start.t
     THEN TimeRange("start time must be before end time", ZeroTime, ZeroTime)
     ELSE TimeRange("", start.t, end.t)

\* parseTimeRange(r): err is "" for a nil error
parseTimeRange(q) ==
  LET start == ParseRFC3339(q.start)
      end == ParseRFC3339(q.end)
  IN IF q.start = NoParam \/ q.end = NoParam
     THEN TimeRange("", now - Day, now)
     ELSE IF start.err
     THEN TimeRange("invalid start time", ZeroTime, ZeroTime)
     ELSE IF end.err
     THEN TimeRange("invalid end time", ZeroTime, ZeroTime)
     ELSE IF end.t < start.t
     THEN TimeRange("start time must be before end time", ZeroTime, ZeroTime)
     ELSE IF end.t - start.t > Day
     THEN TimeRange("time range cannot exceed 24 hours", ZeroTime, ZeroTime)
     ELSE TimeRange("", start.t, end.t)

\* a Cache-Control that compares with midnight of the server's local day
CacheControlLocal(end) ==
  IF end < Truncate(now + zone, Day) - zone
  THEN "public, max-age=86400"
  ELSE "public, max-age=60"

\* the Cache-Control header: today is time.Now().Truncate(24 * time.Hour)
CacheControl(end) ==
  IF end < Truncate(now, Day)
  THEN "public, max-age=86400"
  ELSE "public, max-age=60"

\* types.Price and types.EnergyStats values: prices in cents per kWh,
\* energy in tenths of a kWh
Price(ts, cents) == [TSStart |-> ts, DollarsPerKWH |-> cents]
EnergyStats(ts, flow) == [TSHourStart |-> ts] @@ flow

\* an hour of charging from the grid, an hour of solar in which the battery
\* took no more than the solar gave it, and an hour of discharging
GridChargeHour ==
  [HomeKWH |-> 10, SolarKWH |-> 0, GridImportKWH |-> 30, GridExportKWH |-> 0,
   BatteryUsedKWH |-> 0, BatteryChargedKWH |-> 20, BatteryToHomeKWH |-> 0,
   SolarToBatteryKWH |-> 0, SolarToHomeKWH |-> 0]
SolarHour ==
  [HomeKWH |-> 10, SolarKWH |-> 40, GridImportKWH |-> 0, GridExportKWH |-> 10,
   BatteryUsedKWH |-> 0, BatteryChargedKWH |-> 19, BatteryToHomeKWH |-> 0,
   SolarToBatteryKWH |-> 20, SolarToHomeKWH |-> 10]
DischargeHour ==
  [HomeKWH |-> 10, SolarKWH |-> 0, GridImportKWH |-> 2, GridExportKWH |-> 0,
   BatteryUsedKWH |-> 8, BatteryChargedKWH |-> 0, BatteryToHomeKWH |-> 8,
   SolarToBatteryKWH |-> 0, SolarToHomeKWH |-> 0]
Flows == {GridChargeHour, SolarHour, DischargeHour}

\* storage: the prices and the energy hours of a range, in time order
PriceHistoryIn(start, end) ==
  LET S == {pr \in storedPrices : start <= pr.TSStart /\ pr.TSStart <= end}
  IN CHOOSE q \in [1..Cardinality(S) -> S] :
       \A i, j \in DOMAIN q :
         i < j => q[i] # q[j] /\ q[i].TSStart <= q[j].TSStart
EnergyHistoryIn(start, end) ==
  LET S == {st \in storedHistory :
              start <= st.TSHourStart /\ st.TSHourStart <= end}
  IN CHOOSE q \in [1..Cardinality(S) -> S] :
       \A i, j \in DOMAIN q :
         i < j => q[i] # q[j] /\ q[i].TSHourStart <= q[j].TSHourStart
ActionHistoryIn(start, end) ==
  SelectSeq(storedActions,
            LAMBDA a : start <= a.Timestamp /\ a.Timestamp <= end)

\* the first loops of handleHistorySavings: the sum and the count of the
\* prices of each hour, summed into the map m
RECURSIVE SumHourlyPrices(_, _)
SumHourlyPrices(prices, m) ==
  IF prices = <<>> THEN m
  ELSE LET pr == Head(prices)
           tsHour == Truncate(pr.TSStart, Hour)
           old == IF tsHour \in DOMAIN m THEN m[tsHour]
                  ELSE [total |-> 0, count |-> 0]
       IN SumHourlyPrices(Tail(prices),
            [ts \in DOMAIN m \cup {tsHour} |->
               IF ts = tsHour
               THEN [total |-> old.total + pr.DollarsPerKWH,
                     count |-> old.count + 1]
               ELSE m[ts]])

\* hourlyPrices[ts]: total / count, and 0 for an hour that is not in the map
HourlyPrice(m, ts) ==
  IF ts \in DOMAIN m THEN m[ts].total \div m[ts].count ELSE 0

\* a charging cost that goes below zero when solar gave more than was charged
GridToBatterySigned(stat) == stat.BatteryChargedKWH - stat.SolarToBatteryKWH

\* math.Max(0, stat.BatteryChargedKWH - stat.SolarToBatteryKWH)
GridToBattery(stat) ==
  Max(0, stat.BatteryChargedKWH - stat.SolarToBatteryKWH)

\* var totalSavings SavingsStats, with its Timestamp
ZeroSavings(start) ==
  [Timestamp |-> start, Cost |-> 0, Credit |-> 0, BatterySavings |-> 0,
   SolarSavings |-> 0, AvoidedCost |-> 0, ChargingCost |-> 0,
   SolarGenerated |-> 0, GridImported |-> 0, GridExported |-> 0,
   HomeUsed |-> 0, BatteryUsed |-> 0]

\* the loop over energyStats
RECURSIVE AddEnergyStats(_, _, _)
AddEnergyStats(energyStats, m, total) ==
  IF energyStats = <<>> THEN total
  ELSE LET stat == Head(energyStats)
           price == HourlyPrice(m, Truncate(stat.TSHourStart, Hour))
       IN AddEnergyStats(Tail(energyStats), m,
            [total EXCEPT
               !.HomeUsed = @ + stat.HomeKWH,
               !.SolarGenerated = @ + stat.SolarKWH,
               !.GridImported = @ + stat.GridImportKWH,
               !.GridExported = @ + stat.GridExportKWH,
               !.BatteryUsed = @ + stat.BatteryUsedKWH,
               !.Cost = @ + stat.GridImportKWH * price,
               !.Credit = @ + stat.GridExportKWH * price,
               !.AvoidedCost = @ + stat.BatteryToHomeKWH * price,
               !.ChargingCost = @ + GridToBattery(stat) * price,
               !.SolarSavings = @ + stat.SolarToHomeKWH * price])

\* the SavingsStats that handleHistorySavings encodes
SavingsStats(prices, energyStats, start) ==
  LET total == AddEnergyStats(energyStats, SumHourlyPrices(prices, <<>>),
                              ZeroSavings(start))
  IN [total EXCEPT !.BatterySavings = total.AvoidedCost - total.ChargingCost]

\* what a history handler wrote: nothing of the storage is read and no
\* header is set when it answers with http.Error
HistoryResponse(e, q, code, msg, range, queried, cache, body) ==
  [code |-> code, status |-> msg, endpoint |-> e, query |-> q,
   start |-> range.start, end |-> range.end, queried |-> queried,
   cacheControl |-> cache, body |-> body]

\* no request to a history endpoint answered yet
NoGet ==
  HistoryResponse("", [start |-> NoParam, end |-> NoParam], 0, "",
                  TimeRange("", ZeroTime, ZeroTime), <<>>, NoValue, NoValue)

\* handleHistoryPrices, handleHistoryActions and handleHistorySavings, for
\* the query q; okP and okE tell whether the storage reads succeed
handleHistory(e, q) ==
  /\ lastGet = NoGet
  /\ \E okP, okE \in Outcomes :
       LET range == parseTimeRange(q)
           first == IF e = "actions" THEN "GetActionHistory"
                    ELSE "GetPriceHistory"
           prices == PriceHistoryIn(range.start, range.end)
           energyStats == EnergyHistoryIn(range.start, range.end)
       IN /\ (range.err # "" \/ ~okP \/ e # "savings") => okE
          /\ range.err # "" => okP
          /\ lastGet' =
               IF range.err # ""
               THEN HistoryResponse(e, q, 400, "invalid time range", range,
                                    <<>>, NoValue, NoValue)
               ELSE IF ~okP
               THEN HistoryResponse(e, q, 500,
                                    IF e = "actions"
                                    THEN "failed to get actions"
                                    ELSE "failed to get prices",
                                    range, <<first>>, NoValue, NoValue)
               ELSE IF ~okE
               THEN HistoryResponse(e, q, 500,
                                    "failed to get energy history", range,
                                    <<first, "GetEnergyHistory">>, NoValue,
                                    NoValue)
               ELSE HistoryResponse(e, q, 200, "", range,
                      IF e = "savings" THEN <<first, "GetEnergyHistory">>
                      ELSE <<first>>,
                      CacheControl(range.end),
                      IF e = "prices" THEN prices
                      ELSE IF e = "actions"
                      THEN ActionHistoryIn(range.start, range.end)
                      ELSE SavingsStats(prices, energyStats, range.start))
  /\ UNCHANGED <<serverVars, requestVars, lastPut, controllerVars, clockVars,
                 essOffset, lastSync, lastAuth, storageVars, localVars,
                 essCalls, trace, pc, resp>>

\* ------------------------------------------------------------------------
\* authMiddleware and the handler behind it
\* ------------------------------------------------------------------------

\* Server.oidcAudience: the client the logins are for
oidcAudience == "test-audience"

\* an email claim that is not a string
NotAString == "<not a string>"

\* the ID tokens a cookie can hold: whether signature and expiry are good,
\* the audience the token was issued for, and its email claim (absent, not
\* a string, or a string)
Tokens ==
  [signed : BOOLEAN, aud : {oidcAudience, "my-audience"},
   email : {NoValue, NotAString, "", AdminEmail, OtherEmail}]

\* the auth cookies of a request: none, or one that holds a token
Cookies == {<<>>} \cup {<<tok>> : tok \in Tokens}

\* s.tokenValidator(ctx, token, audience): an error for a token that is bad
\* or was issued for another audience, else the payload with its claims
tokenValidator(token, audience) ==
  IF token.signed /\ token.aud = audience
  THEN [err |-> FALSE, Claims |-> [email |-> token.email]]
  ELSE [err |-> TRUE, Claims |-> [email |-> NoValue]]

\* payload.Claims["email"].(string)
IsString(claim) == claim \notin {NoValue, NotAString}

\* the Set-Cookie header: none, and the one clearCookie writes
NoSetCookie == [set |-> FALSE, Value |-> "", MaxAge |-> 0]
clearCookie == [set |-> TRUE, Value |-> "", MaxAge |-> -1]

\* handleAuthStatus for the e-mail found in the context (NoValue: none)
handleAuthStatus(c, ctxEmail) ==
  LET ok == ctxEmail # NoValue
      email == IF ok THEN ctxEmail ELSE ""
      loggedIn == ok /\ email # ""
      isAdmin == loggedIn /\ email \in c.adminEmails
  IN [LoggedIn |-> loggedIn \/ c.bypassAuth,
      IsAdmin |-> isAdmin \/ c.bypassAuth,
      Email |-> email]

\* a request that went through authMiddleware: its cookies, the response
\* and, when the handler behind ran, the e-mail it found in its context
AuthRecord(cookies, code, msg, setCookie, served, ctxEmail, body) ==
  [cookies |-> cookies, code |-> code, status |-> msg,
   setCookie |-> setCookie, served |-> served, ctxEmail |-> ctxEmail,
   body |-> body]

\* no request handled yet
NoAuth ==
  AuthRecord(<<>>, 0, "", NoSetCookie, FALSE, NoValue,
             [LoggedIn |-> FALSE, IsAdmin |-> FALSE, Email |-> ""])

\* next.ServeHTTP with ctxEmail in the context: the handler answers 200
ServeHTTP(cookies, ctxEmail) ==
  AuthRecord(cookies, 200, "", NoSetCookie, TRUE, ctxEmail,
             handleAuthStatus(cfg, ctxEmail))

\* clearCookie and http.Error(w, msg, 400): the handler is not run
BadRequest(cookies, msg) ==
  AuthRecord(cookies, 400, msg, clearCookie, FALSE, NoValue, NoAuth.body)

\* a middleware that validates the cookie against the audience of the
\* scheduler's tokens
ValidationAudienceOfUpdate(c) == c.updateSpecificAudience

\* the audience the cookie's token is validated against
ValidationAudience(c) == oidcAudience

\* authMiddleware for a request with the cookies r; r.Cookie fails with
\* ErrNoCookie only
authMiddleware(r) ==
  /\ lastAuth = NoAuth
  /\ lastAuth' =
       IF r = <<>>
       THEN ServeHTTP(r, NoValue)
       ELSE LET payload == tokenValidator(r[1], ValidationAudience(cfg))
                email == payload.Claims.email
            IN IF payload.err THEN BadRequest(r, "invalid cookies")
               ELSE IF ~IsString(email)
               THEN BadRequest(r, "invalid oidc claims")
               ELSE ServeHTTP(r, email)
  /\ UNCHANGED <<serverVars, requestVars, lastPut, controllerVars, clockVars,
                 lastGet, essOffset, lastSync, storageVars, localVars,
                 essCalls, trace, pc, resp>>

\* ------------------------------------------------------------------------
\* The history sync of handleUpdate with its times and records
\* ------------------------------------------------------------------------

\* the most instants at which the scheduler fires in SpecSync
MaxSyncTicks == 2

\* 72 * time.Hour
SyncWindow == 72 * Hour

\* the time between two ticks: a scheduler period, a little less than the
\* sync window (so that the last stored time is less than 72 hours old, or
\* just 72 hours old), more than the sync window
Gaps == {1, SyncWindow - 2, SyncWindow - 1, SyncWindow + Hour}

\* the hours of the ESS start essOffset after the hour of the clock
EssOffsets == {0, 2}

\* the record of the ESS for the hour that starts at ts, read at t: it
\* covers what was measured until t, a whole hour at most
EssStats(ts, t) == EnergyStats(ts, [HomeKWH |-> Min(t - ts, Hour)])

\* s.essSystem.GetEnergyHistory(ctx, start, end): the hours that start in
\* the range, oldest first
EssEnergyHistory(start, end) ==
  LET first == start + ((essOffset - start) % Hour)
  IN IF first > end THEN <<>>
     ELSE [i \in 1..((end - first) \div Hour + 1) |->
             EssStats(first + (i - 1) * Hour, end)]

\* storage GetLatestEnergyHistoryTime: the latest TSHourStart, the zero
\* time for an empty history
LatestEnergyHistoryTime(store) ==
  LET age == {0 - st.TSHourStart : st \in store}
  IN IF store = {} THEN ZeroTime
     ELSE 0 - (CHOOSE a \in age : \A o \in age : a <= o)

\* the key of a stored record
HourKey(st) == Truncate(st.TSHourStart, Hour)

\* an upsert that adds the record and replaces none
UpsertAppending(store, h) == store \cup {h}

\* storage UpsertEnergyHistory: the record replaces the one of its hour
Upsert(store, h) ==
  {st \in store : HourKey(st) # HourKey(h)} \cup {h}

\* a start of the sync range that is the last stored time as it is
SyncStartUntruncated(lastHistoryTime, t) ==
  IF lastHistoryTime # ZeroTime /\ lastHistoryTime > t - SyncWindow
  THEN lastHistoryTime
  ELSE t - SyncWindow

\* a start of the sync range that is the hour after the last stored one
SyncStartAfterLast(lastHistoryTime, t) ==
  IF lastHistoryTime # ZeroTime /\ lastHistoryTime > t - SyncWindow
  THEN Truncate(lastHistoryTime, Hour) + Hour
  ELSE t - SyncWindow

\* syncStart: 72 hours ago, or the hour of the last stored time if that
\* time is after 72 hours ago
SyncStart(lastHistoryTime, t) ==
  IF lastHistoryTime # ZeroTime /\ lastHistoryTime > t - SyncWindow
  THEN Truncate(lastHistoryTime, Hour)
  ELSE t - SyncWindow

\* a loop of upserts that add their records and replace none
UpsertEachAppending(newHist, bad, store) ==
  store \cup {newHist[i] : i \in DOMAIN newHist \ bad}

\* for _, h := range newHistory: the upserts of bad fail and are logged.
\* The store after the loop of Upsert calls: the records whose hour no
\* successful upsert wrote, and for each hour written the record of the
\* last successful upsert of that hour
UpsertEach(newHist, bad, store) ==
  LET done == DOMAIN newHist \ bad
      keys == {HourKey(newHist[i]) : i \in done}
      last == IF Cardinality(keys) = Cardinality(done) THEN done
              ELSE {i \in done :
                      \A j \in done :
                        j > i => HourKey(newHist[j]) # HourKey(newHist[i])}
  IN {st \in store : HourKey(st) \notin keys}
       \cup {newHist[i] : i \in last}

\* the upserts that fail in one sync: none, all, the one of the newest
\* hour, all but the one of the newest hour
UpsertFailures(n) == {{}, 1..n, {n} \cap (1..n), 1..(n - 1)}

\* the sync of tick n: whether it ran, what GetLatestEnergyHistoryTime
\* gave, the range asked of the ESS, how many hours came back, the failed
\* calls and the stored records that an upsert replaced by another one
SyncRecord(n, ran, okL, last, start, end, okE, returned, bad, replaced) ==
  [tick |-> n, ran |-> ran, latestOk |-> okL, lastHistoryTime |-> last,
   start |-> start, end |-> end, essOk |-> okE, returned |-> returned,
   failed |-> bad, replaced |-> replaced]

\* no history sync run in tick n
Unsynced(n) ==
  SyncRecord(n, FALSE, TRUE, ZeroTime, ZeroTime, ZeroTime, TRUE, 0, {}, {})
NoSync == Unsynced(0)

\* step 3 of handleUpdate, in one piece
syncEnergyHistory ==
  /\ \E okL, okE \in Outcomes :
       LET lastHistoryTime ==
             IF okL THEN LatestEnergyHistoryTime(storedHistory) ELSE ZeroTime
           syncStart == SyncStart(lastHistoryTime, now)
           newHist == IF okE THEN EssEnergyHistory(syncStart, now) ELSE <<>>
       IN \E bad \in UpsertFailures(Len(newHist)) :
            /\ (~faulty) => bad = {}
            /\ storedHistory' = UpsertEach(newHist, bad, storedHistory)
            /\ lastSync' = SyncRecord(lastSync.tick, TRUE, okL,
                                      lastHistoryTime, syncStart, now, okE,
                                      Len(newHist), bad,
                                      storedHistory \ storedHistory')
  /\ UNCHANGED <<serverVars, requestVars, lastPut, controllerVars, clockVars,
                 lastGet, essOffset, lastAuth, storedSettings, storedPrices,
                 storedActions, localVars, essCalls, trace, pc, resp>>

\* the scheduler fires again, gap later; the tick before may have been
\* missed
Advance(gap) ==
  /\ lastSync.tick + 1 < MaxSyncTicks
  /\ now' = now + gap
  /\ lastSync' = Unsynced(lastSync.tick + 1)
  /\ UNCHANGED <<serverVars, requestVars, lastPut, controllerVars, zone,
                 lastGet, essOffset, lastAuth, storageVars, localVars, essCalls,
                 trace, pc, resp>>

\* ------------------------------------------------------------------------
\* Specifications
\* ------------------------------------------------------------------------

\* the requests ts arrive, each having received the requests rs; nothing
\* has been called and nothing answered
InitRequests(ts, rs) ==
  /\ active = ts
  /\ essCalls = <<>>
  /\ pc = [t \in Ticks |-> Pipeline[1]]
  /\ trace = [t \in Ticks |-> <<>>]
  /\ settings = [t \in Ticks |-> ZeroSettings]
  /\ status = [t \in Ticks |-> ZeroStatus]
  /\ newHistory = [t \in Ticks |-> <<>>]
  /\ histIdx = [t \in Ticks |-> 1]
  /\ action = [t \in Ticks |-> ZeroAction]
  /\ futurePrices = [t \in Ticks |-> <<>>]
  /\ energyHistory = [t \in Ticks |-> <<>>]
  /\ decideArgs = [t \in Ticks |-> NoDecideArgs]
  /\ inserted = [t \in Ticks |-> NoInsert]
  /\ resp = [t \in Ticks |-> NoResponse]
  /\ arrived = [t \in Ticks |-> IF t \in ts THEN rs ELSE {}]
  /\ cancelled = [t \in Ticks |-> FALSE]

\* an empty storage, but for the settings document
InitStorage ==
  /\ storedPrices = {}
  /\ storedHistory = {}
  /\ storedActions = <<>>

\* no Decide call made or asked for
InitController ==
  /\ input = NoInput
  /\ decision = NoDecision
  /\ earlier = <<>>

\* a server whose local time is UTC, at the first instant
InitClock ==
  /\ now = Epoch
  /\ zone = 0

\* no history request answered, no history sync run
InitHistory ==
  /\ lastGet = NoGet
  /\ essOffset = 0
  /\ lastSync = NoSync
  /\ lastAuth = NoAuth

\* the state after construction, before any request: the configuration is
\* any of cfgs, the stored settings any of SettingsValues, the requests ts
\* arrive, outbound calls may fail iff f, and the requests rs have been
\* received by each of ts
InitWith(cfgs, ts, f, rs) ==
  /\ cfg \in cfgs
  /\ faulty = f
  /\ storedSettings \in SettingsValues
  /\ InitRequests(ts, rs)
  /\ InitStorage
  /\ lastPut = NoPut
  /\ controller = StrictController
  /\ InitController
  /\ InitClock
  /\ InitHistory

\* a deployment: scheduler audience, service-account e-mail and admin list
DeployedConfig ==
  [updateSpecificEmail |-> SpecificEmail, adminEmails |-> {AdminEmail},
   updateSpecificAudience |-> "my-audience", bypassAuth |-> FALSE]

\* a server with a scheduler audience and nobody allowed
BlockedConfig ==
  [updateSpecificEmail |-> "", adminEmails |-> {},
   updateSpecificAudience |-> "my-audience", bypassAuth |-> FALSE]

\* a server with nothing configured, without and with --bypass-auth
UnconfiguredConfig ==
  [updateSpecificEmail |-> "", adminEmails |-> {},
   updateSpecificAudience |-> "", bypassAuth |-> FALSE]
BypassConfig ==
  [updateSpecificEmail |-> "", adminEmails |-> {},
   updateSpecificAudience |-> "", bypassAuth |-> TRUE]

\* one request, outbound calls may fail
Init ==
  InitWith({DeployedConfig, BlockedConfig, UnconfiguredConfig, BypassConfig},
           {1}, TRUE, {})

Spec == Init /\ [][Next]_vars

\* one request to the deployed server, paused or not, when every outbound
\* call returns, with a value or an error, and the goroutine of the request
\* is scheduled until the handler returns: a step of the handler that can
\* be taken is taken
InitLive ==
  /\ InitWith({DeployedConfig}, {1}, TRUE, {})
  /\ ~storedSettings.DryRun

SpecLive ==
  InitLive /\ [][Next]_vars /\ \A t \in Ticks : WF_vars(handleUpdate(t))

\* the request of the scheduler: no cookie, a token that validates and
\* carries the e-mail of an admin
SchedulerRequest ==
  [ctxEmail |-> NoValue, authHeader |-> <<"Bearer", "token">>,
   tokenValid |-> TRUE, claimEmail |-> AdminEmail]

\* all requests in flight at once, each one a request of the scheduler, in
\* a healthy environment
InitConc ==
  InitWith({c \in Configs : c.updateSpecificEmail = "" /\ c.adminEmails # {}
                            /\ c.updateSpecificAudience # ""},
           Ticks, FALSE, {SchedulerRequest})

NextConc == \E t \in Ticks : Tick(t)

SpecConc == InitConc /\ [][NextConc]_vars

\* one request to a server of any configuration, in a healthy environment
InitAuth == InitWith(Configs, {1}, FALSE, {})

SpecAuth == InitAuth /\ [][Next]_vars

\* a server that receives no request to /api/update or /api/settings, in a
\* healthy environment
InitIdle ==
  /\ cfg = UnconfiguredConfig
  /\ faulty = FALSE
  /\ storedSettings = baseSettings
  /\ InitRequests({}, {})
  /\ lastPut = NoPut

\* one call of Decide, for any arguments of DecideInputs
InitDecide ==
  /\ InitIdle
  /\ InitStorage
  /\ controller \in Controllers
  /\ input \in DecideInputs
  /\ decision = NoDecision
  /\ earlier = <<>>
  /\ InitClock
  /\ InitHistory

NextDecide == DecideCall

SpecDecide == InitDecide /\ [][NextDecide]_vars

\* several calls of Decide on one controller: the first for any arguments
\* of FirstInputs, a later one for the arguments of the first call or for
\* those of the negative-price test
InitPure ==
  /\ InitIdle
  /\ InitStorage
  /\ controller \in Controllers
  /\ input \in FirstInputs
  /\ decision = NoDecision
  /\ earlier = <<>>
  /\ InitClock
  /\ InitHistory

NextPure ==
  \/ DecideCall
  \/ \E in \in {NegativePriceInput}
                \cup {earlier[i].input : i \in DOMAIN earlier}
                \cup {input} : DecideAgain(in)

SpecPure == InitPure /\ [][NextPure]_vars

\* requests to the history endpoints, one per behaviour, at two instants of
\* the day and in two zones; the storage holds two prices and one hour and
\* its reads may fail
InitHistoryApi ==
  /\ cfg = UnconfiguredConfig
  /\ faulty = TRUE
  /\ storedSettings = baseSettings
  /\ InitRequests({}, {})
  /\ lastPut = NoPut
  /\ storedPrices = {Price(Epoch - 3 * Hour, 12), Price(Epoch - 30 * Hour, 6)}
  /\ storedHistory = {EnergyStats(Epoch - 3 * Hour, DischargeHour)}
  /\ storedActions = <<>>
  /\ controller = StrictController
  /\ InitController
  /\ now \in {Epoch + 2 * Hour, Epoch + 13 * Hour}
  /\ zone \in Zones
  /\ InitHistory

NextHistoryApi == \E e \in Endpoints, q \in Queries : handleHistory(e, q)

SpecHistoryApi == InitHistoryApi /\ [][NextHistoryApi]_vars

\* the most prices and hours that the storage holds in SpecSavings
MaxStoredPrices == 2
MaxStoredHours == 2

\* stored prices: two in one hour (one of them not on the hour), one in a
\* later hour, one older than a day; negative and positive
PriceRecords ==
  {Price(ts, cents) :
     ts \in {Epoch - 30 * Hour, Epoch - 7 * Hour, Epoch - 7 * Hour + 1,
             Epoch - 1 * Hour + 2},
     cents \in {0 - 6, 12}}

\* stored hours of energy: the hour of the two prices, the hour after it
\* (which has no price) and the hour of the later price
StatRecords ==
  {EnergyStats(ts, flow) :
     ts \in {Epoch - 7 * Hour, Epoch - 6 * Hour, Epoch - 1 * Hour},
     flow \in Flows}

\* one price per instant and one record per hour, as the storage keys them
PriceStores ==
  {S \in SUBSET PriceRecords :
     /\ Cardinality(S) <= MaxStoredPrices
     /\ \A a, b \in S : a.TSStart = b.TSStart => a = b}
HistoryStores ==
  {S \in SUBSET StatRecords :
     /\ Cardinality(S) <= MaxStoredHours
     /\ \A a, b \in S : a.TSHourStart = b.TSHourStart => a = b}

\* a UTC stamp d hours after Epoch
UTCStamp(d) == [kind |-> "stamp", wall |-> Epoch + d * Hour, offset |-> 0]

\* the default window and three explicit ones
SavingsQueries ==
  {[start |-> NoParam, end |-> NoParam],
   [start |-> UTCStamp(0 - 7), end |-> UTCStamp(0 - 1)],
   [start |-> UTCStamp(0 - 24), end |-> UTCStamp(0 - 7)],
   [start |-> UTCStamp(0 - 31), end |-> UTCStamp(0 - 30)]}

\* a request to the savings endpoint, over any storage of PriceStores and
\* HistoryStores
InitSavings ==
  /\ InitIdle
  /\ storedPrices \in PriceStores
  /\ storedHistory \in HistoryStores
  /\ storedActions = <<>>
  /\ controller = StrictController
  /\ InitController
  /\ now = Epoch + 2 * Hour
  /\ zone = 0
  /\ InitHistory

NextSavings == \E q \in SavingsQueries : handleHistory("savings", q)

SpecSavings == InitSavings /\ [][NextSavings]_vars

\* ticks of which only the history sync is looked at, over an empty
\* history, a quarter of an hour before the end of an hour; the calls of
\* the sync may fail
InitSync ==
  /\ cfg = UnconfiguredConfig
  /\ faulty = TRUE
  /\ storedSettings = baseSettings
  /\ InitRequests({}, {})
  /\ lastPut = NoPut
  /\ InitStorage
  /\ controller = StrictController
  /\ InitController
  /\ now = Epoch + 3
  /\ zone = 0
  /\ lastGet = NoGet
  /\ essOffset \in EssOffsets
  /\ lastSync = NoSync
  /\ lastAuth = NoAuth

NextSync ==
  \/ syncEnergyHistory
  \/ \E gap \in Gaps : Advance(gap)

SpecSync == InitSync /\ [][NextSync]_vars

\* PUT /api/settings requests, one after the other, to a server with or
\* without admins and with or without --bypass-auth; SetSettings may fail
InitSettings ==
  InitWith({c \in Configs : c.updateSpecificEmail = ""
                            /\ c.updateSpecificAudience = ""},
           {}, TRUE, {})

NextSettings == handleUpdateSettings

SpecSettings == InitSettings /\ [][NextSettings]_vars

\* one request whose context may be cancelled at any step, in an
\* environment where a call fails only because of the cancellation
InitCancel ==
  InitWith({DeployedConfig, BlockedConfig, UnconfiguredConfig, BypassConfig},
           {1}, FALSE, {})

NextCancel == Next \/ \E t \in Ticks : Cancel(t)

SpecCancel == InitCancel /\ [][NextCancel]_vars

\* one request through authMiddleware to a server of any configuration
InitMiddleware == InitWith(Configs, {}, FALSE, {})

NextMiddleware == \E r \in Cookies : authMiddleware(r)

SpecMiddleware == InitMiddleware /\ [][NextMiddleware]_vars

\* the bodies of the PUT /api/settings requests that arrive during a
\* tick: Pause and DryRun set or not
SnapshotBodies == {[decodes |-> TRUE, settings |-> b] : b \in SettingsValues}

\* one tick on a server that takes one PUT /api/settings request at any
\* moment before, during or after the tick, in a healthy environment
InitSnapshot == InitWith({BypassConfig}, {1}, FALSE, {})

NextSnapshot ==
  \/ \E t \in Ticks : handleUpdate(t)
  \/ /\ lastPut = NoPut
     /\ \E body \in SnapshotBodies : UpdateSettings(NoValue, body, TRUE)

SpecSnapshot == InitSnapshot /\ [][NextSnapshot]_vars

\* ------------------------------------------------------------------------
\* Properties
\* ------------------------------------------------------------------------

Done(t) == pc[t] = "done"

\* the positions of the calls to name in the trace of request t
Positions(t, name) == {i \in 1..Len(trace[t]) : trace[t][i].call = name}

Called(t, name) == Positions(t, name) # {}

Returned(t, name, ok) == \E i \in Positions(t, name) : trace[t][i].ok = ok

Failed(t, name) == Returned(t, name, FALSE)

\* the mutating calls request t has made on the ESS
EssCallsOf(t, name) ==
  {i \in 1..Len(essCalls) : essCalls[i].tick = t /\ essCalls[i].call = name}

\* the order of the steps of a tick as section 4.2 and 5 of the
\* specification state it
StatedOrder ==
  <<"GetSettings", "ApplySettings", "LastConfirmedPrice", "UpsertPrice",
    "GetLatestEnergyHistoryTime", "EssGetEnergyHistory",
    "UpsertEnergyHistory", "PauseGate", "GetStatus", "EmergencyGate",
    "GetCurrentPrice", "GetFuturePrices", "GetEnergyHistory", "Decide",
    "SetModes", "InsertAction">>

Rank(name) == CHOOSE k \in 1..Len(StatedOrder) : StatedOrder[k] = name

\* the steps every tick that ends in "success" has run
EveryTickCalls ==
  {"GetSettings", "ApplySettings", "LastConfirmedPrice",
   "GetLatestEnergyHistoryTime", "EssGetEnergyHistory", "PauseGate",
   "GetStatus", "EmergencyGate", "GetCurrentPrice", "GetFuturePrices",
   "GetEnergyHistory", "Decide", "InsertAction"}

\* C1: within a tick the steps run in the stated order: each call of the
\* trace comes later in the order than the call before it (only the per-hour
\* UpsertEnergyHistory of the history sync repeats), so no step runs twice or
\* out of order, and a tick that ends in "success" has run every step.
C1_StepsInOrder ==
  \A t \in Ticks :
    /\ \A i \in 1..Len(trace[t]) :
         \E k \in 1..Len(StatedOrder) : StatedOrder[k] = trace[t][i].call
    /\ \A i \in 1..(Len(trace[t]) - 1) :
         \/ Rank(trace[t][i].call) < Rank(trace[t][i + 1].call)
         \/ /\ trace[t][i].call = "UpsertEnergyHistory"
            /\ trace[t][i + 1].call = "UpsertEnergyHistory"
    /\ resp[t].status = "success" =>
         \A c \in EveryTickCalls : Cardinality(Positions(t, c)) = 1

\* a tick that ran every step, the optional ones included
C1_Witness ==
  \E t \in Ticks :
    /\ Done(t)
    /\ resp[t].status = "success"
    /\ Called(t, "UpsertPrice")
    /\ Cardinality(Positions(t, "UpsertEnergyHistory")) > 1
    /\ Called(t, "SetModes")

\* C2: a tick whose loaded settings have Pause=true never calls GetStatus,
\* Decide, SetModes or InsertAction; it has pushed the settings to the ESS,
\* and once the push succeeded it attempts the price sync and the history
\* sync and answers 200 {"status":"paused"}.
C2_PausedTick ==
  \A t \in Ticks :
    (Returned(t, "GetSettings", TRUE) /\ settings[t].Pause) =>
      /\ \A c \in {"GetStatus", "Decide", "SetModes", "InsertAction"} :
           ~Called(t, c)
      /\ EssCallsOf(t, "SetModes") = {}
      /\ Done(t) =>
           /\ Called(t, "ApplySettings")
           /\ Returned(t, "ApplySettings", TRUE) =>
                /\ resp[t] = HttpStatus("paused")
                /\ Called(t, "LastConfirmedPrice")
                /\ Called(t, "GetLatestEnergyHistoryTime")
                /\ Called(t, "EssGetEnergyHistory")

\* a paused tick that has answered, after syncing a price and an hour
C2_Witness ==
  \E t \in Ticks :
    /\ Done(t)
    /\ settings[t].Pause
    /\ resp[t].status = "paused"
    /\ Returned(t, "UpsertPrice", TRUE)
    /\ Returned(t, "UpsertEnergyHistory", TRUE)

\* C3: a tick whose GetStatus reported EmergencyMode=true issues no command:
\* it never runs Decide, SetModes or InsertAction and logs no action, it
\* answers 200 {"status":"emergency mode"}, and its settings push, price
\* sync and history sync have run before.
C3_EmergencyTick ==
  \A t \in Ticks :
    (Returned(t, "GetStatus", TRUE) /\ status[t].EmergencyMode) =>
      /\ \A c \in {"Decide", "SetModes", "InsertAction"} : ~Called(t, c)
      /\ EssCallsOf(t, "SetModes") = {}
      /\ active = {t} => storedActions = <<>>
      /\ Returned(t, "ApplySettings", TRUE)
      /\ Called(t, "LastConfirmedPrice")
      /\ Called(t, "GetLatestEnergyHistoryTime")
      /\ Called(t, "EssGetEnergyHistory")
      /\ Done(t) => resp[t] = HttpStatus("emergency mode")

\* a tick that has answered "emergency mode"
C3_Witness ==
  \E t \in Ticks :
    /\ Done(t)
    /\ status[t].EmergencyMode
    /\ resp[t].status = "emergency mode"

\* C4: the ESS calls of two ticks are never interleaved: in the order the
\* ESS receives ApplySettings and SetModes, no call of another tick lies
\* between two calls of one tick.
C4_NoInterleavedEssCalls ==
  \A i, j, k \in 1..Len(essCalls) :
    (i < j /\ j < k /\ essCalls[i].tick = essCalls[k].tick) =>
      essCalls[j].tick = essCalls[i].tick

\* the storage as it is before any tick has run
StorageUntouched ==
  storedPrices = {} /\ storedHistory = {} /\ storedActions = <<>>

\* C5: a request answered 401 or 403 has made no call at all, to the
\* storage, the ESS or the price provider, and has changed nothing.
C5_RejectedChangesNothing ==
  \A t \in Ticks :
    resp[t].code \in {401, 403} =>
      /\ Done(t)
      /\ trace[t] = <<>>
      /\ \A i \in 1..Len(essCalls) : essCalls[i].tick # t
      /\ active = {t} => StorageUntouched
      /\ settings[t] = ZeroSettings

\* a request rejected for its e-mail
C5_Witness ==
  \E t \in Ticks : Done(t) /\ resp[t] = HttpError(403, "unauthorized email")

\* the calls whose failure section 4.2 and 7 of the specification call fatal
StatedFatal ==
  {"GetSettings", "ApplySettings", "GetStatus", "GetCurrentPrice", "Decide"}

\* C6: when GetSettings, ApplySettings, GetStatus, GetCurrentPrice or Decide
\* fails, the tick answers 500 and the failed call is its last step: SetModes
\* is not called and no action is inserted.
C6_FatalFailure ==
  \A t \in Ticks : \A c \in StatedFatal :
    Failed(t, c) =>
      /\ Done(t)
      /\ resp[t].code = 500
      /\ trace[t][Len(trace[t])] = Call(c, FALSE)
      /\ ~Called(t, "SetModes")
      /\ EssCallsOf(t, "SetModes") = {}
      /\ ~Called(t, "InsertAction")
      /\ active = {t} => storedActions = <<>>

\* a tick that failed at the current price, after it got the ESS status
C6_Witness ==
  \E t \in Ticks :
    /\ Failed(t, "GetCurrentPrice")
    /\ Returned(t, "GetStatus", TRUE)
    /\ resp[t] = HttpError(500, "failed to get price")

\* the step section 4.2 of the specification has follow a non-fatal call
\* that failed at position i of the trace of request t
StatedNextAfterFailure(t, i) ==
  LET c == trace[t][i].call
      upserts == {j \in Positions(t, "UpsertEnergyHistory") : j <= i}
  IN CASE c \in {"LastConfirmedPrice", "UpsertPrice"} ->
            "GetLatestEnergyHistoryTime"
       [] c = "GetLatestEnergyHistoryTime" -> "EssGetEnergyHistory"
       [] c = "EssGetEnergyHistory" -> "PauseGate"
       [] c = "UpsertEnergyHistory" ->
            IF Cardinality(upserts) < Len(newHistory[t])
            THEN "UpsertEnergyHistory" ELSE "PauseGate"
       [] c = "GetFuturePrices" -> "GetEnergyHistory"
       [] c = "GetEnergyHistory" -> "Decide"
       [] OTHER -> "none"

StatedNonFatal ==
  {"LastConfirmedPrice", "UpsertPrice", "GetLatestEnergyHistoryTime",
   "EssGetEnergyHistory", "UpsertEnergyHistory", "GetFuturePrices",
   "GetEnergyHistory", "InsertAction"}

\* C7: a failed non-fatal call neither changes the HTTP status nor prevents
\* a later step: the step after it is the one that follows a success (for a
\* failed upsert of an hour, the upsert of the next hour), every hour the ESS
\* returned is upserted, a failed InsertAction is followed by the 200
\* "success" response, and a tick that answers 500 has a failed fatal call.
C7_NonFatalFailure ==
  \A t \in Ticks :
    /\ \A i \in 1..Len(trace[t]) :
         (trace[t][i].call \in StatedNonFatal /\ ~trace[t][i].ok) =>
           /\ pc[t] # "done" \/ i < Len(trace[t]) \/ resp[t].code = 200
           /\ i < Len(trace[t]) =>
                trace[t][i + 1].call = StatedNextAfterFailure(t, i)
           /\ i = Len(trace[t]) /\ Done(t) =>
                /\ trace[t][i].call = "InsertAction"
                /\ resp[t].status = "success"
    /\ Called(t, "PauseGate") /\ Returned(t, "EssGetEnergyHistory", TRUE) =>
         Cardinality(Positions(t, "UpsertEnergyHistory")) = Len(newHistory[t])
    /\ Done(t) /\ resp[t].code \notin {401, 403} =>
         IF \E c \in StatedFatal : Failed(t, c)
         THEN resp[t].code = 500
         ELSE resp[t].code = 200

\* a tick that answered "success" although every non-fatal call it made
\* failed, the upsert of the first of two hours included
C7_Witness ==
  \E t \in Ticks :
    /\ Done(t)
    /\ resp[t].code = 200
    /\ resp[t].status = "success"
    /\ Failed(t, "LastConfirmedPrice")
    /\ Failed(t, "GetLatestEnergyHistoryTime")
    /\ Len(newHistory[t]) > 1
    /\ ~trace[t][CHOOSE i \in Positions(t, "UpsertEnergyHistory") :
                   \A j \in Positions(t, "UpsertEnergyHistory") : i <= j].ok
    /\ Failed(t, "GetFuturePrices")
    /\ Failed(t, "GetEnergyHistory")
    /\ Failed(t, "InsertAction")

\* the tick of request t is past its execute step
Executed(t) == Returned(t, "Decide", TRUE) /\ pc[t] \in {"InsertAction", "done"}

\* C8: the execute step calls SetModes exactly once, with the decided
\* battery mode and the solar mode Any, when the decided battery mode is
\* ChargeAny, Load or Standby, and not at all otherwise; before the execute
\* step the tick has not called SetModes, and NoChange is never passed to it.
C8_ExecuteCommands ==
  \A t \in Ticks :
    /\ ~Executed(t) => EssCallsOf(t, "SetModes") = {}
    /\ Executed(t) =>
         IF action[t].BatteryMode \in {"ChargeAny", "Load", "Standby"}
         THEN /\ Cardinality(EssCallsOf(t, "SetModes")) = 1
              /\ Cardinality(Positions(t, "SetModes")) = 1
              /\ \A i \in EssCallsOf(t, "SetModes") :
                   essCalls[i].args =
                     [bat |-> action[t].BatteryMode, sol |-> "Any"]
         ELSE /\ EssCallsOf(t, "SetModes") = {}
              /\ ~Called(t, "SetModes")
    /\ \A i \in EssCallsOf(t, "SetModes") : essCalls[i].args.bat # "NoChange"

\* a tick that commanded Load although the controller chose NoExport
C8_Witness ==
  \E t \in Ticks :
    /\ Executed(t)
    /\ action[t].BatteryMode = "Load"
    /\ action[t].SolarMode = "NoExport"
    /\ \E i \in EssCallsOf(t, "SetModes") :
         essCalls[i].args = [bat |-> "Load", sol |-> "Any"]

\* C9: when SetModes fails the tick goes on: SetModes was called once, the
\* action is inserted with " (FAILED: ...)" appended to the Description the
\* controller gave, and the response is 200 "success" with that action.
C9_SetModesFailure ==
  \A t \in Ticks :
    Failed(t, "SetModes") =>
      /\ Cardinality(Positions(t, "SetModes")) = 1
      /\ Cardinality(EssCallsOf(t, "SetModes")) = 1
      /\ action[t].Description = Rationale \o <<" (FAILED: error)">>
      /\ Done(t) =>
           /\ resp[t].code = 200
           /\ resp[t].status = "success"
           /\ resp[t].action = action[t]
           /\ Called(t, "InsertAction")
           /\ Returned(t, "InsertAction", TRUE) /\ active = {t} =>
                storedActions = <<action[t]>>

\* a tick that logged the action of a failed command
C9_Witness ==
  \E t \in Ticks :
    /\ Done(t)
    /\ Failed(t, "SetModes")
    /\ Returned(t, "InsertAction", TRUE)
    /\ Len(storedActions) = 1

\* C10: a tick whose settings have DryRun=true executes no mode command on
\* the ESS: it does not call SetModes.
C10_DryRunExecutesNothing ==
  \A t \in Ticks :
    settings[t].DryRun => EssCallsOf(t, "SetModes") = {}

\* C11: the action of a tick whose settings have DryRun=true has DryRun=true
\* when InsertAction is called with it (the flag is set before the
\* insertion), the action the log received carries the flag, and so does the
\* action of the response.
C11_DryRunFlagged ==
  \A t \in Ticks :
    settings[t].DryRun =>
      /\ pc[t] = "InsertAction" => action[t].DryRun
      /\ Called(t, "InsertAction") =>
           /\ action[t].DryRun
           /\ resp[t] = HttpSuccess(action[t])
           /\ resp[t].action.DryRun
      /\ Returned(t, "InsertAction", TRUE) /\ active = {t} =>
           /\ Len(storedActions) = 1
           /\ storedActions[1].DryRun

\* a dry-run tick whose action was inserted and answered
C11_Witness ==
  \E t \in Ticks :
    /\ settings[t].DryRun
    /\ Returned(t, "InsertAction", TRUE)
    /\ Len(storedActions) = 1
    /\ storedActions[1].DryRun
    /\ resp[t].code = 200
    /\ resp[t].action.DryRun

Judged(t) == arrived[t] # {} /\ pc[t] # "Authorize"

Req(t) == CHOOSE r \in arrived[t] : TRUE

\* the handler answered with code before any step of the tick
Rejected(t, code) ==
  pc[t] = "done" /\ resp[t].code = code /\ trace[t] = <<>>

\* the handler goes on to the tick: GetSettings is its next step
Admitted(t) ==
  pc[t] = "GetSettings" /\ resp[t] = NoResponse /\ trace[t] = <<>>

\* the e-mails allowed to trigger a tick: the scheduler's and the admins'
Allowlist(c) ==
  (IF c.updateSpecificEmail # "" THEN {c.updateSpecificEmail} ELSE {})
    \cup c.adminEmails

SchedulerConfigured(c) == c.updateSpecificAudience # "" /\ Allowlist(c) # {}

NoCookie(r) == r.ctxEmail \in {NoValue, ""}

\* the header is "Bearer <token>"
BearerForm(h) == Len(h) = 2 /\ h[1] \in {"Bearer", "bearer"}

\* the request carries a bearer token that validates against the scheduler
\* audience and whose e-mail claim is allowed
ValidBearer(c, r) ==
  /\ c.updateSpecificAudience # ""
  /\ BearerForm(r.authHeader)
  /\ r.tokenValid
  /\ r.claimEmail \in Allowlist(c)

\* C13: for a request without cookie identity, when a scheduler audience and
\* at least one allowed e-mail are configured: a missing header, a header
\* that is not "Bearer <token>" or a token that fails validation is answered
\* 401; a validated token whose e-mail claim is absent or not allowed is
\* answered 403; the tick runs exactly for a validated token with an allowed
\* e-mail.
C13_BearerPath ==
  \A t \in Ticks :
    Judged(t) /\ NoCookie(Req(t)) /\ SchedulerConfigured(cfg) =>
      LET r == Req(t)
      IN /\ ~BearerForm(r.authHeader) \/ ~r.tokenValid => Rejected(t, 401)
         /\ /\ BearerForm(r.authHeader) /\ r.tokenValid
            /\ r.claimEmail \notin Allowlist(cfg)
            => Rejected(t, 403)
         /\ Admitted(t) <=> ValidBearer(cfg, r)

\* a scheduler request with a validated, allowed token that may run
C13_Witness ==
  \E t \in Ticks :
    /\ Judged(t) /\ NoCookie(Req(t)) /\ SchedulerConfigured(cfg)
    /\ ValidBearer(cfg, Req(t))
    /\ Admitted(t)

\* the request carries neither credential: no allowed cookie identity and no
\* validated bearer token with an allowed e-mail
LacksBoth(c, r) == r.ctxEmail \notin Allowlist(c) /\ ~ValidBearer(c, r)

\* C14 as stated: with bypassAuth=false a request that lacks both an allowed
\* cookie identity and a validated, allowed bearer token never reaches
\* GetSettings, and when no scheduler audience or no allowed e-mail is
\* configured it is answered 401.
C14_UnauthorizedGets401 ==
  \A t \in Ticks :
    Judged(t) /\ ~cfg.bypassAuth /\ LacksBoth(cfg, Req(t)) =>
      /\ ~Admitted(t)
      /\ ~Called(t, "GetSettings")
      /\ ~SchedulerConfigured(cfg) => Rejected(t, 401)

\* C14, amended: with bypassAuth=false a request that lacks both an allowed
\* cookie identity and a validated, allowed bearer token never reaches
\* GetSettings: it is answered 401 or 403 before any step of the tick; when
\* no scheduler audience or no allowed e-mail is configured the answer is
\* 401 for a request without cookie identity and 403 for a request that
\* carries a cookie identity.
C14_UnauthorizedNeverRuns ==
  \A t \in Ticks :
    Judged(t) /\ ~cfg.bypassAuth /\ LacksBoth(cfg, Req(t)) =>
      /\ ~Admitted(t)
      /\ ~Called(t, "GetSettings")
      /\ Rejected(t, 401) \/ Rejected(t, 403)
      /\ ~SchedulerConfigured(cfg) =>
           IF NoCookie(Req(t)) THEN Rejected(t, 401) ELSE Rejected(t, 403)

\* a signed-in user who is not allowed, turned away by a server that has no
\* scheduler audience or no allowed e-mail
C14_Witness ==
  \E t \in Ticks :
    /\ Judged(t) /\ ~cfg.bypassAuth /\ LacksBoth(cfg, Req(t))
    /\ ~SchedulerConfigured(cfg)
    /\ ~NoCookie(Req(t))
    /\ Rejected(t, 403)

\* C16 as stated: either path is sufficient; a request is authorized if its
\* cookie identity is allowed or if its bearer token validates with an allowed
\* e-mail, also when it carries the cookie of a user who is not allowed.
C16_EitherPathSuffices ==
  \A t \in Ticks :
    Judged(t) =>
      (Req(t).ctxEmail \in Allowlist(cfg) \/ ValidBearer(cfg, Req(t))
         => Admitted(t))

\* C16, amended: a request is authorized if its cookie identity is allowed,
\* or if it carries no cookie identity and its bearer token validates with
\* an allowed e-mail; the bearer token is looked at only when there is no
\* cookie identity, so a request with the cookie identity of a user who is
\* not allowed is answered 403 whatever token it carries.
C16_CookieBeforeBearer ==
  \A t \in Ticks :
    Judged(t) =>
      LET r == Req(t)
      IN /\ r.ctxEmail \in Allowlist(cfg) => Admitted(t)
         /\ NoCookie(r) /\ ValidBearer(cfg, r) => Admitted(t)
         /\ ~NoCookie(r) /\ r.ctxEmail \notin Allowlist(cfg)
              => Rejected(t, 403)

\* a valid scheduler token sent along with the cookie of a user who is not
\* allowed: answered 403
C16_Witness ==
  \E t \in Ticks :
    /\ Judged(t)
    /\ ~NoCookie(Req(t)) /\ Req(t).ctxEmail \notin Allowlist(cfg)
    /\ ValidBearer(cfg, Req(t))
    /\ Rejected(t, 403)

\* a PUT /api/settings request has been answered
PutAnswered == lastPut.code # 0

\* SetSettings was not called and the stored settings are as before
PutChangedNothing ==
  lastPut.setSettings = <<>> /\ storedSettings = lastPut.before

\* C15 (handleUpdate and handleUpdateSettings): with the bypass flag set all
\* authentication checks are disabled: every /api/update request runs the
\* tick and every PUT /api/settings request reaches the validation of its
\* body, whatever cookie, header or configuration: no 401 or 403 is ever
\* answered.
C15_BypassDisablesChecks ==
  cfg.bypassAuth =>
    /\ \A t \in Ticks :
         /\ Judged(t) => Admitted(t)
         /\ resp[t].code \notin {401, 403}
    /\ lastPut.code \notin {401, 403}

\* C17: with bypass off, PUT /api/settings is answered 403 when the admin
\* list is empty, 401 when the request has no cookie identity, and 403 when
\* the identity is not in the list; a request so rejected does not call
\* SetSettings and leaves the stored settings unchanged; an admin with a
\* valid body gets 200 and the stored settings equal the body (unless the
\* storage fails to save them, which is answered 500).
C17_SettingsNeedAdmin ==
  PutAnswered /\ ~cfg.bypassAuth =>
    LET admin == lastPut.ctxEmail \in cfg.adminEmails
        valid == lastPut.body.decodes /\ SettingsInBounds(lastPut.body.settings)
    IN /\ cfg.adminEmails = {} => lastPut.code = 403
       /\ cfg.adminEmails # {} /\ lastPut.ctxEmail \in {NoValue, ""}
            => lastPut.code = 401
       /\ /\ cfg.adminEmails # {}
          /\ lastPut.ctxEmail \notin {NoValue, ""}
          /\ ~admin
          => lastPut.code = 403
       /\ ~admin => lastPut.code \in {401, 403} /\ PutChangedNothing
       /\ lastPut.code \in {401, 403} => ~admin
       /\ admin /\ valid =>
            \/ /\ lastPut.code = 200
               /\ lastPut.setSettings = <<TRUE>>
               /\ storedSettings = lastPut.body.settings
            \/ /\ lastPut.code = 500
               /\ lastPut.setSettings = <<FALSE>>
               /\ storedSettings = lastPut.before

\* an admin whose valid body replaced different stored settings
C17_Witness ==
  /\ PutAnswered /\ ~cfg.bypassAuth
  /\ lastPut.ctxEmail \in cfg.adminEmails
  /\ lastPut.code = 200
  /\ storedSettings = lastPut.body.settings
  /\ storedSettings # lastPut.before

\* C18: after any sequence of PUT /api/settings requests, starting from valid
\* stored settings, the stored settings satisfy AlwaysChargeUnder >= 0,
\* AdditionalFees >= 0, MinArbitrage >= 0, 0 <= MinBatterySOC <= 100 and
\* IgnoreHourUsageOverMultiple >= 1; a body that violates a bound, or cannot
\* be decoded, is answered 400 and leaves the stored settings unchanged.
C18_StoredSettingsInBounds ==
  /\ storedSettings.AlwaysChargeUnderDollarsPerKWH >= 0
  /\ storedSettings.AdditionalFeesDollarsPerKWH >= 0
  /\ storedSettings.MinArbitrageDifferenceDollarsPerKWH >= 0
  /\ storedSettings.MinBatterySOC >= 0
  /\ storedSettings.MinBatterySOC <= 100
  /\ storedSettings.IgnoreHourUsageOverMultiple >= 1
  /\ PutAnswered /\ lastPut.code \notin {401, 403} =>
       LET b == lastPut.body.settings
           bad == \/ ~lastPut.body.decodes
                  \/ b.AlwaysChargeUnderDollarsPerKWH < 0
                  \/ b.AdditionalFeesDollarsPerKWH < 0
                  \/ b.MinArbitrageDifferenceDollarsPerKWH < 0
                  \/ b.MinBatterySOC < 0
                  \/ b.MinBatterySOC > 100
                  \/ b.IgnoreHourUsageOverMultiple < 1
       IN /\ bad => lastPut.code = 400 /\ PutChangedNothing
          /\ lastPut.code = 400 => bad

\* a second request, with MinBatterySOC over 100, turned down after a first
\* one had replaced the settings
C18_Witness ==
  /\ PutAnswered
  /\ lastPut.code = 400
  /\ lastPut.body.decodes
  /\ lastPut.body.settings.MinBatterySOC > 100
  /\ storedSettings = lastPut.before
  /\ storedSettings \notin SettingsValues

\* the Description d has the phrase
Contains(d, phrase) == \E i \in DOMAIN d : d[i] = phrase

\* C19: Decide never returns the battery mode ChargeAny when
\* GridChargeBatteries is false and the current price is above 0, whatever
\* the status, the future prices and the history.
C19_NoGridChargeNoChargeAny ==
  decision.made =>
    (~input.settings.GridChargeBatteries
       /\ input.currentPrice.DollarsPerKWH > 0
     => decision.BatteryMode # "ChargeAny" /\ decision.raw # "ChargeAny")

\* a projected deficit at a price below every future price, with grid
\* charging off: the decision is not to charge
C19_Witness ==
  /\ decision.made
  /\ ~input.settings.GridChargeBatteries
  /\ input.currentPrice.DollarsPerKWH > 0
  /\ EffectiveCurrent(input) < input.settings.AlwaysChargeUnderDollarsPerKWH
  /\ Deficit(input)
  /\ input.futurePrices # <<>>
  /\ decision.raw = "Standby"

\* C20: whenever BatteryCapacityKWH is 0, Decide returns the battery mode
\* Standby with a Description containing "Capacity 0", whatever the price,
\* the settings and the history, also when the battery is observed
\* discharging: the guard wins over every other rule and the anti-thrash
\* layer does not rewrite its Standby to NoChange.
C20_ZeroCapacityStandby ==
  decision.made /\ input.status.BatteryCapacityKWH = 0 =>
    /\ decision.BatteryMode = "Standby"
    /\ Contains(decision.Description, "Capacity 0")

\* zero capacity, a negative price and a battery observed discharging
C20_Witness ==
  /\ decision.made
  /\ input.status.BatteryCapacityKWH = 0
  /\ input.status.BatteryKW > 0
  /\ input.currentPrice.DollarsPerKWH <= 0
  /\ decision.BatteryMode = "Standby"
  /\ Contains(decision.Description, "Capacity 0")

\* the cases in which section 4.1.3 selects NoExport
MustNotExport(in) ==
  \/ in.currentPrice.DollarsPerKWH <= 0
  \/ ~in.settings.GridExportSolar
  \/ ~in.status.CanExportSolar

C22_AntiThrash ==
  decision.made =>
    /\ input.status.BatteryKW > 0 /\ decision.raw = "Load"
         => decision.BatteryMode = "NoChange"
    /\ input.status.BatteryKW < 0 /\ decision.raw = "ChargeAny"
         => decision.BatteryMode = "NoChange"

\* a battery that charges while the price is negative: ChargeAny is
\* answered NoChange
C22_Witness ==
  /\ decision.made
  /\ input.status.BatteryKW < 0
  /\ decision.raw = "ChargeAny"
  /\ decision.BatteryMode = "NoChange"

\* a battery that discharges while it holds enough: Load is answered
\* NoChange
C22_WitnessDischarging ==
  /\ decision.made
  /\ input.status.BatteryKW > 0
  /\ decision.raw = "Load"
  /\ decision.BatteryMode = "NoChange"

\* a non-positive current price on a battery with capacity
FreePower(in) ==
  in.currentPrice.DollarsPerKWH <= 0 /\ in.status.BatteryCapacityKWH # 0

\* the battery part of C23: the raw decision is ChargeAny, emitted as
\* ChargeAny unless the battery is already charging, then as NoChange
ChargesWhenFree ==
  /\ decision.raw = "ChargeAny"
  /\ decision.BatteryMode =
       IF input.status.BatteryKW < 0 THEN "NoChange" ELSE "ChargeAny"

Answered == lastGet.code # 0

\* both parameters are in the query
BothPresent(q) == q.start # NoParam /\ q.end # NoParam

\* a parameter that is in the query and is not RFC3339
Malformed(str) == str # NoParam /\ ParseRFC3339(str).err

\* both parameters parse, and the end is before the start or more than 24
\* hours after it
OutOfOrderOrTooLong(q) ==
  /\ BothPresent(q)
  /\ ~ParseRFC3339(q.start).err /\ ~ParseRFC3339(q.end).err
  /\ LET d == ParseRFC3339(q.end).t - ParseRFC3339(q.start).t
     IN d < 0 \/ d > Day

\* 400 and no storage read
RejectedUnread == lastGet.code = 400 /\ lastGet.queried = <<>>

\* an accepted range is at most 24 hours long; the default range is the
\* last 24 hours
AcceptedRangeBounded ==
  /\ lastGet.code # 400 =>
       0 <= lastGet.end - lastGet.start /\ lastGet.end - lastGet.start <= Day
  /\ (Answered /\ ~BothPresent(lastGet.query)) =>
       /\ lastGet.code # 400
       /\ lastGet.start = now - Day
       /\ lastGet.end = now

\* C25 as stated: a request whose end is before its start, whose range is
\* longer than 24 hours or whose start or end is not RFC3339 is answered 400
\* without a storage read; an accepted range is between 0 and 24 hours long;
\* a request without start or without end gets [now - 24h, now].
C25_RejectsEveryMalformed ==
  Answered =>
    /\ (\/ Malformed(lastGet.query.start)
        \/ Malformed(lastGet.query.end)
        \/ OutOfOrderOrTooLong(lastGet.query)) => RejectedUnread
    /\ AcceptedRangeBounded

\* C25 amended: a request with both parameters is answered 400 without a
\* storage read when one of them is not RFC3339, when the end is before the
\* start or when the range is longer than 24 hours; an accepted range is
\* between 0 and 24 hours long; a request without start or without end gets
\* [now - 24h, now], whatever its other parameter holds.
C25_RejectsWhenBothPresent ==
  Answered =>
    /\ (/\ BothPresent(lastGet.query)
        /\ \/ Malformed(lastGet.query.start)
           \/ Malformed(lastGet.query.end)
           \/ OutOfOrderOrTooLong(lastGet.query)) => RejectedUnread
    /\ AcceptedRangeBounded

\* a range of 24 hours and a quarter has been rejected
C25_Witness ==
  /\ RejectedUnread
  /\ lastGet.status = "invalid time range"
  /\ BothPresent(lastGet.query)
  /\ ~ParseRFC3339(lastGet.query.start).err
  /\ ~ParseRFC3339(lastGet.query.end).err
  /\ ParseRFC3339(lastGet.query.end).t - ParseRFC3339(lastGet.query.start).t
       = Day + 1

\* C26 as stated: an answered history request carries "public,
\* max-age=86400" exactly when the requested end is before midnight of the
\* current day in the server's zone, and "public, max-age=60" otherwise.
C26_LocalMidnight ==
  lastGet.code = 200 =>
    lastGet.cacheControl = IF lastGet.end < Truncate(now + zone, Day) - zone
                           THEN "public, max-age=86400"
                           ELSE "public, max-age=60"

\* a range that ended after local midnight, in a zone west of UTC, was
\* answered with the long max-age
C26_Diverges ==
  /\ lastGet.code = 200
  /\ lastGet.end >= Truncate(now + zone, Day) - zone
  /\ lastGet.cacheControl = "public, max-age=86400"

\* the stored prices and hours of the window of the answered request
PricesInWindow ==
  {pr \in storedPrices :
     lastGet.start <= pr.TSStart /\ pr.TSStart <= lastGet.end}
HoursInWindow ==
  {st \in storedHistory :
     lastGet.start <= st.TSHourStart /\ st.TSHourStart <= lastGet.end}

\* price(h): the mean of the prices of the window whose TSStart truncates to
\* the hour h, and 0 when there is none
MeanPrice(h) ==
  LET P == {pr \in PricesInWindow : Truncate(pr.TSStart, Hour) = h}
  IN IF P = {} THEN 0
     ELSE SumOf([pr \in P |-> pr.DollarsPerKWH], P) \div Cardinality(P)

\* the price of the hour of a stored record
PriceOf(st) == MeanPrice(Truncate(st.TSHourStart, Hour))

\* C27: the savings endpoint returns batterySavings = avoidedCost -
\* chargingCost, with avoidedCost, chargingCost, cost, credit and
\* solarSavings the sums over the energy hours of the window of
\* BatteryToHomeKWH, max(0, BatteryChargedKWH - SolarToBatteryKWH),
\* GridImportKWH, GridExportKWH and SolarToHomeKWH times the mean price of
\* the hour (0 for an hour without price); the energy totals count every
\* hour, priced or not.
C27_Savings ==
  (lastGet.code = 200 /\ lastGet.endpoint = "savings") =>
    LET E == HoursInWindow
        b == lastGet.body
    IN /\ b.BatterySavings = b.AvoidedCost - b.ChargingCost
       /\ b.AvoidedCost =
            SumOf([st \in E |-> st.BatteryToHomeKWH * PriceOf(st)], E)
       /\ b.ChargingCost =
            SumOf([st \in E |->
                     Max(0, st.BatteryChargedKWH - st.SolarToBatteryKWH)
                       * PriceOf(st)], E)
       /\ b.Cost = SumOf([st \in E |-> st.GridImportKWH * PriceOf(st)], E)
       /\ b.Credit = SumOf([st \in E |-> st.GridExportKWH * PriceOf(st)], E)
       /\ b.SolarSavings =
            SumOf([st \in E |-> st.SolarToHomeKWH * PriceOf(st)], E)
       /\ b.HomeUsed = SumOf([st \in E |-> st.HomeKWH], E)
       /\ b.SolarGenerated = SumOf([st \in E |-> st.SolarKWH], E)
       /\ b.GridImported = SumOf([st \in E |-> st.GridImportKWH], E)
       /\ b.GridExported = SumOf([st \in E |-> st.GridExportKWH], E)
       /\ b.BatteryUsed = SumOf([st \in E |-> st.BatteryUsedKWH], E)

\* savings over an hour of grid charging priced at the mean 3 of two prices
\* (-6 and 12) and an hour of discharging that has no price: the charging
\* cost is 20 x 3, nothing is avoided, the home use of both hours counts
C27_Witness ==
  /\ lastGet.code = 200 /\ lastGet.endpoint = "savings"
  /\ Cardinality(PricesInWindow) = 2
  /\ \E st \in HoursInWindow : PriceOf(st) = 3 /\ st.BatteryChargedKWH = 20
  /\ \E st \in HoursInWindow : st.BatteryToHomeKWH = 8 /\ PriceOf(st) = 0
  /\ lastGet.body.ChargingCost = 60
  /\ lastGet.body.AvoidedCost = 0
  /\ lastGet.body.BatterySavings = 0 - 60
  /\ lastGet.body.HomeUsed = 20

\* savings over a solar hour in which the battery took less than the solar
\* gave it, at a price: no charging cost, and none below zero
C27_WitnessSolar ==
  /\ lastGet.code = 200 /\ lastGet.endpoint = "savings"
  /\ \E st \in HoursInWindow :
       /\ st.BatteryChargedKWH < st.SolarToBatteryKWH
       /\ PriceOf(st) = 12
  /\ Cardinality(HoursInWindow) = 1
  /\ lastGet.body.ChargingCost = 0
  /\ lastGet.body.SolarSavings = 120

\* ------------------------------------------------------------------------
\* The history sync
\* ------------------------------------------------------------------------

\* two records of the running hour of the clock: one on the hour, of a
\* quarter of an hour, and one half an hour after it, of the whole hour
UpsertArguments ==
  {EnergyStats(Truncate(now, Hour), [HomeKWH |-> 1]),
   EnergyStats(Truncate(now, Hour) + 2, [HomeKWH |-> Hour])}

\* the records that the history holds for the hour of h
StoredFor(store, h) == {st \in store : HourKey(st) = HourKey(h)}

SyncFloor == lastSync.end - SyncWindow

SyncSucceeded ==
  lastSync.ran /\ lastSync.latestOk /\ lastSync.essOk /\ lastSync.failed = {}

\* a sync that succeeded over a history whose last stored time is at most
\* 72 hours old asked for the range from the last stored hour, that hour
\* included, through now, and the history holds what the ESS has at now for
\* every hour from the last stored one on
C30_FromLastStored ==
  (/\ SyncSucceeded
   /\ lastSync.lastHistoryTime # ZeroTime
   /\ now - lastSync.lastHistoryTime <= SyncWindow) =>
    LET last == lastSync.lastHistoryTime
    IN /\ Truncate(last, Hour) <= lastSync.start
       /\ lastSync.start <= last
       /\ lastSync.end = now
       /\ \A i \in 0..((now - last) \div Hour) :
            EssStats(last + i * Hour, now) \in storedHistory

\* a sync that succeeds at the instant at which a sync has succeeded
\* leaves the stored history as it is
C30_RepeatChangesNothing ==
  (/\ SyncSucceeded
   /\ SyncSucceeded'
   /\ now' = now) => storedHistory' = storedHistory

\* C30: after missed ticks or failed syncs, the next sync that succeeds asks
\* for the history from the last stored hour (itself included) through now
\* and stores every hour from it on, when the last stored time is at most 72
\* hours old; a tick repeated with no new ESS data leaves the stored history
\* unchanged.
C30_TicksResync ==
  []C30_FromLastStored /\ [][C30_RepeatChangesNothing]_vars

\* a tick succeeded after more than an hour and at most 72 hours without a
\* stored hour: it asked for the hours from the last stored one on, got
\* several and replaced the record of the last stored hour
C30_Witness ==
  /\ SyncSucceeded
  /\ lastSync.tick > 0
  /\ lastSync.lastHistoryTime # ZeroTime
  /\ now - lastSync.lastHistoryTime > Hour
  /\ now - lastSync.lastHistoryTime <= SyncWindow
  /\ lastSync.start <= lastSync.lastHistoryTime
  /\ lastSync.returned > 1
  /\ lastSync.replaced # {}

\* ------------------------------------------------------------------------
\* The tick: deadline, degraded data, snapshot, action log, outcome
\* ------------------------------------------------------------------------

\* C31: once the context of a tick is cancelled, so that its outbound calls
\* fail, the call that failed is the last step the tick starts and the tick
\* answers 5xx, never 200; the ESS commands that were applied before stay
\* applied.
C31_DeadlineAborts ==
  \A t \in Ticks :
    cancelled[t] =>
      /\ \A i \in 1..(Len(trace[t]) - 1) : trace[t][i].ok
      /\ (Done(t) /\ \E i \in 1..Len(trace[t]) : ~trace[t][i].ok) =>
           resp[t].code >= 500
      /\ \A i \in 1..Len(trace[t]) :
           (trace[t][i].call = "ApplySettings" /\ trace[t][i].ok) =>
             \E k \in EssCallsOf(t, "ApplySettings") : essCalls[k].ok

\* a tick cancelled after it had the current price: every later call
\* failed, the tick went through all its remaining steps and answered 200
C31_Diverges ==
  \E t \in Ticks :
    /\ cancelled[t] /\ Done(t)
    /\ Returned(t, "GetCurrentPrice", TRUE)
    /\ Failed(t, "GetFuturePrices")
    /\ Failed(t, "GetEnergyHistory")
    /\ Failed(t, "InsertAction")
    /\ resp[t].code = 200

\* C32: when GetFuturePrices failed, Decide is called with an empty
\* futurePrices, and when the storage GetEnergyHistory failed, Decide is
\* called with an empty history, whatever the failed call returned.
C32_EmptyOnFailure ==
  \A t \in Ticks :
    decideArgs[t].called =>
      /\ Failed(t, "GetFuturePrices") => decideArgs[t].futurePrices = <<>>
      /\ Failed(t, "GetEnergyHistory") => decideArgs[t].history = <<>>

\* Decide was called with the prices that a failed GetFuturePrices returned
\* with its error
C32_Diverges ==
  \E t \in Ticks :
    /\ decideArgs[t].called
    /\ Failed(t, "GetFuturePrices")
    /\ decideArgs[t].futurePrices = ComingPrices
    /\ Returned(t, "GetEnergyHistory", TRUE)
    /\ decideArgs[t].history = StoredHours

\* ------------------------------------------------------------------------
\* The controller: grid charging, idle battery, order of the deficit rules
\* ------------------------------------------------------------------------

\* C33 as stated: when the battery charges faster than the solar surplus
\* max(0, SolarKW - HomeKW) while GridKW > 0 and the raw decision is Load
\* or Standby, the emitted battery mode is Load, never NoChange and never
\* Standby.
C33_GridChargingStopped ==
  decision.made =>
    (GridCharging(input.status) /\ decision.raw \in {"Load", "Standby"}
       => decision.BatteryMode = "Load")

\* C33: on a battery with capacity, when the battery charges faster than
\* the solar surplus while GridKW > 0 and the raw decision is Load or
\* Standby, the emitted battery mode is Load; the zero capacity guard
\* answers Standby whatever the battery is observed to do.
C33_StoppedUnlessZeroCapacity ==
  decision.made =>
    /\ (/\ GridCharging(input.status)
        /\ ~ZeroCapacity(input)
        /\ decision.raw \in {"Load", "Standby"})
         => decision.BatteryMode = "Load"
    /\ ZeroCapacity(input) => decision.BatteryMode = "Standby"

\* a battery with capacity charges at 3 kW with 3 kW imported and a solar
\* surplus below that; the rules chose Standby and Load is emitted
C33_Witness ==
  /\ decision.made
  /\ GridCharging(input.status)
  /\ ~ZeroCapacity(input)
  /\ input.status.SolarKW - input.status.HomeKW > 0
  /\ decision.raw = "Standby"
  /\ decision.BatteryMode = "Load"

\* the same battery when the rules chose Load
C33_WitnessLoad ==
  /\ decision.made
  /\ GridCharging(input.status)
  /\ ~ZeroCapacity(input)
  /\ decision.raw = "Load"
  /\ decision.BatteryMode = "Load"

\* 4.1.4: one of the conditions under which the finalization answers
\* something else than the desired mode d
AntiThrashApplies(st, d) ==
  \/ st.BatteryKW < 0 /\ d = "ChargeAny"
  \/ st.BatteryKW > 0 /\ d \in {"Load", "Standby"}
  \/ GridCharging(st) /\ d \in {"Load", "Standby"}

\* C34: when none of the anti-thrash conditions applies, in particular
\* when the battery is idle (BatteryKW = 0), the emitted battery mode is
\* exactly the raw desired mode (ChargeAny, Load or Standby) and is never
\* NoChange.
C34_OtherwiseDesired ==
  decision.made =>
    (~AntiThrashApplies(input.status, decision.raw)
       => /\ decision.BatteryMode = decision.raw
          /\ decision.BatteryMode \in {"ChargeAny", "Load", "Standby"})

\* the arguments of the test "Deficit + Moderate Price + High Future Price":
\* an idle battery at 50 %, no grid charging of the battery, a deficit
\* ahead and a dearer hour coming; the rules choose Standby and NoChange is
\* emitted
C34_Diverges ==
  /\ decision.made
  /\ input.status.BatteryKW = 0
  /\ input.status.BatterySOC = 50
  /\ ~ZeroCapacity(input)
  /\ ~input.settings.GridChargeBatteries
  /\ Deficit(input)
  /\ decision.raw = "Standby"
  /\ Contains(decision.Description, "Deficit predicted")
  /\ decision.BatteryMode = "NoChange"

\* an idle battery that the rules tell to supply the load: Load is emitted
C34_IdleLoad ==
  /\ decision.made
  /\ input.status.BatteryKW = 0
  /\ decision.raw = "Load"
  /\ decision.BatteryMode = "Load"

\* one of the rules 1-2 of 4.1.2 matches
GuardRule(in) == ZeroCapacity(in) \/ AlwaysCharge(in)

\* one of the rules 1-3 of 4.1.2 matches
EarlierRule(in) == GuardRule(in) \/ Arbitrage(in)

\* the effective current price is no higher than any future price
CheapestNow(in) ==
  \A j \in Window(in) :
    EffectiveCurrent(in) <= in.futurePrices[j].DollarsPerKWH

\* the effective current price is the maximum of current and future prices
PeakNow(in) ==
  \A j \in DOMAIN in.futurePrices :
    EffectiveCurrent(in) >= in.futurePrices[j].DollarsPerKWH

\* a future hour is cheaper than the effective current price
CheaperAhead(in) ==
  \E j \in DOMAIN in.futurePrices :
    in.futurePrices[j].DollarsPerKWH < EffectiveCurrent(in)

\* the decision of the deficit rules 4, 5 and 6, in this order
DeficitRulesDecide ==
  IF CheapestNow(input)
  THEN /\ decision.raw = IF input.settings.GridChargeBatteries
                         THEN "ChargeAny" ELSE "Standby"
       /\ Contains(decision.Description, "Projected Deficit")
  ELSE IF PeakNow(input)
  THEN /\ decision.raw = "Load"
       /\ Contains(decision.Description, "Deficit predicted")
       /\ Contains(decision.Description, "but Current Price is Peak")
  ELSE CheaperAhead(input) =>
         /\ decision.raw = "Standby"
         /\ Contains(decision.Description, "Deficit predicted")

C35_WitnessFlat ==
  /\ decision.made /\ ~EarlierRule(input) /\ Deficit(input)
  /\ CheapestNow(input) /\ PeakNow(input)
  /\ input.settings.GridChargeBatteries
  /\ decision.raw = "ChargeAny"
  /\ Contains(decision.Description, "Projected Deficit")

\* the arbitrage rule decides where no deficit is projected
C35_WitnessArbitrage ==
  /\ decision.made /\ ~GuardRule(input) /\ Arbitrage(input)
  /\ ~Deficit(input)
  /\ decision.raw = "ChargeAny"
  /\ Contains(decision.Description, "Arbitrage: charge now for spike at")

\* a deficit at the peak with a cheaper hour coming: rule 5 matches before
\* rule 6
C35_WitnessPeak ==
  /\ decision.made /\ ~EarlierRule(input) /\ Deficit(input)
  /\ ~CheapestNow(input) /\ PeakNow(input) /\ CheaperAhead(input)
  /\ decision.raw = "Load"
  /\ Contains(decision.Description, "but Current Price is Peak")

\* a deficit between a cheaper and a dearer hour: rule 6
C35_WitnessWaiting ==
  /\ decision.made /\ ~EarlierRule(input) /\ Deficit(input)
  /\ ~CheapestNow(input) /\ ~PeakNow(input) /\ CheaperAhead(input)
  /\ decision.raw = "Standby"
  /\ Contains(decision.Description, "Deficit predicted")

\* a deficit at the cheapest hour without grid charging: Standby
C35_WitnessNoGridCharge ==
  /\ decision.made /\ ~EarlierRule(input) /\ Deficit(input)
  /\ CheapestNow(input) /\ ~PeakNow(input)
  /\ ~input.settings.GridChargeBatteries
  /\ decision.raw = "Standby"
  /\ Contains(decision.Description, "Projected Deficit")

\* ------------------------------------------------------------------------
\* authMiddleware
\* ------------------------------------------------------------------------

\* a request has gone through authMiddleware
AuthAnswered == lastAuth.code # 0

\* the request carried the auth cookie
HasCookie == lastAuth.cookies # <<>>

\* the token of the cookie validates against the OIDC audience
CookieValidates ==
  HasCookie /\ lastAuth.cookies[1].signed
            /\ lastAuth.cookies[1].aud = oidcAudience

\* C36: behind authMiddleware the handler sees an e-mail identity only if
\* the request carried the auth cookie, its token validated against the
\* OIDC audience and has a string email claim; with no cookie the handler
\* runs without identity; when validation fails or the email claim is
\* missing the response is 400, the cookie is cleared (MaxAge -1, empty
\* value) and the handler is not run.
C36_IdentityOnlyFromCookie ==
  AuthAnswered =>
    /\ (lastAuth.served /\ lastAuth.ctxEmail # NoValue) =>
         /\ CookieValidates
         /\ IsString(lastAuth.cookies[1].email)
         /\ lastAuth.ctxEmail = lastAuth.cookies[1].email
    /\ ~HasCookie =>
         /\ lastAuth.served /\ lastAuth.ctxEmail = NoValue
         /\ ~lastAuth.setCookie.set
    /\ (HasCookie /\ (~CookieValidates
                       \/ ~IsString(lastAuth.cookies[1].email))) =>
         /\ lastAuth.code = 400
         /\ lastAuth.setCookie.set
         /\ lastAuth.setCookie.MaxAge = -1
         /\ lastAuth.setCookie.Value = ""
         /\ ~lastAuth.served
    /\ lastAuth.body.LoggedIn =>
         \/ cfg.bypassAuth
         \/ CookieValidates /\ lastAuth.body.Email = lastAuth.cookies[1].email

\* a cookie with a good token for the OIDC audience and the admin's e-mail:
\* the handler sees the admin
C36_Witness ==
  /\ AuthAnswered /\ CookieValidates
  /\ lastAuth.cookies[1].email = AdminEmail
  /\ lastAuth.served
  /\ lastAuth.ctxEmail = AdminEmail
  /\ cfg.adminEmails = {AdminEmail} /\ ~cfg.bypassAuth
  /\ lastAuth.body.IsAdmin

\* a good token that was issued for the scheduler's audience: 400, the
\* cookie cleared
C36_WitnessOtherAudience ==
  /\ AuthAnswered /\ HasCookie
  /\ lastAuth.cookies[1].signed
  /\ lastAuth.cookies[1].aud = cfg.updateSpecificAudience
  /\ lastAuth.cookies[1].email = AdminEmail
  /\ lastAuth.code = 400 /\ lastAuth.status = "invalid cookies"
  /\ lastAuth.setCookie = clearCookie
  /\ ~lastAuth.served

\* a good token without a string email claim: 400, the cookie cleared
C36_WitnessNoEmail ==
  /\ AuthAnswered /\ CookieValidates
  /\ lastAuth.cookies[1].email = NotAString
  /\ lastAuth.code = 400 /\ lastAuth.status = "invalid oidc claims"
  /\ lastAuth.setCookie = clearCookie
  /\ ~lastAuth.served

\* no cookie: the handler runs without identity
C36_WitnessNoCookie ==
  /\ AuthAnswered /\ ~HasCookie
  /\ lastAuth.served /\ lastAuth.ctxEmail = NoValue
  /\ ~lastAuth.body.LoggedIn

\* ------------------------------------------------------------------------
\* The tick and PUT /api/settings
\* ------------------------------------------------------------------------

\* what tick t has done with settings agrees with its local settings: the
\* argument of ApplySettings, the pause gate, the settings argument of
\* Decide and the DryRun flag of the action logged and answered
UsesSnapshot(t) ==
  /\ Cardinality(Positions(t, "GetSettings")) <= 1
  /\ \A k \in EssCallsOf(t, "ApplySettings") :
       essCalls[k].args = settings[t]
  /\ Called(t, "PauseGate") =>
       (resp[t] = HttpStatus("paused") <=> settings[t].Pause)
  /\ decideArgs[t].called => decideArgs[t].settings = settings[t]
  /\ Called(t, "InsertAction") =>
       /\ action[t].DryRun = settings[t].DryRun
       /\ resp[t].action.DryRun = settings[t].DryRun

\* the local settings of tick t are written by its GetSettings step only,
\* with the settings stored at that moment
ReadsOnce(t) ==
  settings'[t] # settings[t] =>
    /\ pc[t] = "GetSettings"
    /\ settings'[t] = storedSettings

\* C37: a tick reads the settings exactly once and uses that snapshot for
\* ApplySettings, the pause gate, the settings argument of Decide and the
\* DryRun flag, also when a PUT /api/settings request changes the stored
\* settings while the tick runs.
C37_OneSnapshot ==
  /\ [](\A t \in Ticks : UsesSnapshot(t))
  /\ [][\A t \in Ticks : ReadsOnce(t)]_vars

\* a tick that is past its pause gate while the stored settings, changed by
\* a PUT since the tick read them, say Pause
C37_Witness ==
  \E t \in Ticks :
    /\ Called(t, "PauseGate") /\ ~Done(t)
    /\ lastPut.code = 200
    /\ lastPut.before = settings[t]
    /\ storedSettings.Pause /\ ~settings[t].Pause

\* a tick that called Decide and answered with the settings it read, not
\* those a PUT stored in between: DryRun was set, the action is not DryRun
C37_WitnessDecide ==
  \E t \in Ticks :
    /\ Done(t) /\ resp[t].status = "success"
    /\ lastPut.code = 200
    /\ Cardinality(EssCallsOf(t, "ApplySettings")) = 1
    /\ storedSettings.DryRun /\ ~resp[t].action.DryRun
    /\ decideArgs[t].settings = lastPut.before
    /\ decideArgs[t].settings # storedSettings

\* ------------------------------------------------------------------------
\* The action log
\* ------------------------------------------------------------------------

\* C38: InsertAction is called at most once per tick, and exactly in the
\* ticks that reach the execute step (authorized, not paused, not in
\* emergency mode, no fatal failure); the Action passed to it is identical
\* to the action of the 200 "success" response (modes, Description with
\* any FAILED suffix, DryRun) and has a non-zero Timestamp.
C38_ActionLoggedOnce ==
  \A t \in Ticks :
    /\ Cardinality(Positions(t, "InsertAction")) <= 1
    /\ inserted[t].called <=> Called(t, "InsertAction")
    /\ Done(t) =>
         /\ inserted[t].called <=> Returned(t, "Decide", TRUE)
         /\ inserted[t].called <=>
              (resp[t].code = 200 /\ resp[t].status = "success")
    /\ inserted[t].called =>
         /\ Done(t)
         /\ resp[t] = HttpSuccess(inserted[t].action)
         /\ inserted[t].action.Timestamp # ZeroTime
         /\ inserted[t].action.BatteryMode \in BatteryModes
         /\ inserted[t].action.SolarMode \in SolarModes

\* a dry-run tick whose SetModes call failed: the action passed to
\* InsertAction carries the FAILED suffix, the DryRun flag and the time of
\* the tick, and the response carries the same action
C38_Witness ==
  \E t \in Ticks :
    /\ inserted[t].called
    /\ Failed(t, "SetModes")
    /\ inserted[t].action.Description = AppendFailed(Rationale)
    /\ inserted[t].action.DryRun
    /\ inserted[t].action.Timestamp = now
    /\ resp[t].action = inserted[t].action
    /\ storedActions = <<inserted[t].action>>

\* a tick whose InsertAction call failed: nothing is stored, the response
\* carries the action that was passed
C38_WitnessNotStored ==
  \E t \in Ticks :
    /\ inserted[t].called
    /\ Failed(t, "InsertAction")
    /\ storedActions = <<>>
    /\ resp[t] = HttpSuccess(inserted[t].action)

\* ------------------------------------------------------------------------
\* The outcome of a tick
\* ------------------------------------------------------------------------

\* the outcomes of a tick: the status code and, for 200, the status of the
\* JSON body
TickOutcomes ==
  {<<401, "">>, <<403, "">>, <<500, "">>, <<200, "paused">>,
   <<200, "emergency mode">>, <<200, "success">>}

\* the outcome that the response of tick t stands for
Outcome(t) ==
  <<resp[t].code, IF resp[t].code = 200 THEN resp[t].status ELSE "">>

\* a response once written is never replaced, and a tick that has returned
\* takes no further step
WrittenOnce(t) ==
  /\ resp[t] # NoResponse => resp'[t] = resp[t]
  /\ Done(t) => pc'[t] = pc[t] /\ trace'[t] = trace[t]

\* C39: provided every outbound call returns, every tick terminates and
\* produces exactly one outcome out of 401, 403, 500, 200 "paused", 200
\* "emergency mode" and 200 "success": no path leaves the tick without a
\* response or writes two outcomes.
C39_OneOutcome ==
  /\ <>(\A t \in active : Done(t))
  /\ [](\A t \in Ticks :
          /\ Done(t) => Outcome(t) \in TickOutcomes
          /\ resp[t] # NoResponse => Done(t))
  /\ [][\A t \in Ticks : WrittenOnce(t)]_vars

\* a tick that failed at its last fatal call and answered 500 after it had
\* applied the settings and synced price and history
C39_Witness ==
  \E t \in Ticks :
    /\ Done(t)
    /\ Failed(t, "Decide")
    /\ Returned(t, "ApplySettings", TRUE)
    /\ Outcome(t) = <<500, "">>

\* the six outcomes, each reached by some tick
C39_WitnessUnauthorized == \E t \in Ticks : Done(t) /\ Outcome(t) = <<401, "">>
C39_WitnessForbidden == \E t \in Ticks : Done(t) /\ Outcome(t) = <<403, "">>
C39_WitnessPaused == \E t \in Ticks : Done(t) /\ Outcome(t) = <<200, "paused">>
C39_WitnessEmergency ==
  \E t \in Ticks : Done(t) /\ Outcome(t) = <<200, "emergency mode">>
C39_WitnessSuccess == \E t \in Ticks : Done(t) /\ Outcome(t) = <<200, "success">>

============================================================================
